---- MODULE Spec2Model ----
(***************************************************************************)
(* ShellMaster: the planning-and-reconnaissance pipeline.                  *)
(*   safety.py   the command safety gate (three tiers)                     *)
(*   domains.py  the domain planner (get_scout_commands)                   *)
(*   graph.py    the orchestrator (refine, retrieve, scout, generate)      *)
(* Shell fragments, queries and entity values are TLA+ strings; the        *)
(* regular expressions of the source are operators that search a string    *)
(* character by character.                                                 *)
(***************************************************************************)
EXTENDS Integers, Sequences, FiniteSets, TLC

(***************************************************************************)
(* Characters and strings                                                  *)
(***************************************************************************)

\* The i-th character of s, as a string of length one.
Ch(s, i) == SubSeq(s, i, i)

\* U+0060: the lexer reads a grave accent as the opening of a quotation that
\* the next apostrophe closes, so the character is cut out of such a pair.
BACKTICK == SubSeq("`'", 1, 1)

CharsOf(s) == {Ch(s, i) : i \in 1..Len(s)}

\* The lexer reads a character beyond ASCII only when its low byte is 0x80
\* or more. A CJK character it cannot read is written as another CJK
\* character that occurs nowhere in the source (a renaming of characters,
\* one to one, applied to every string of the model alike); the comment
\* beside such a string gives the source's text.

UPPER == "ABCDEFGHIJKLMNOPQRSTUVWXYZ"
LOWER == "abcdefghijklmnopqrstuvwxyz"
DIGITS == "0123456789"

UpperSet == CharsOf(UPPER)
LowerSet == CharsOf(LOWER)
DigitSet == CharsOf(DIGITS)
AlnumSet == UpperSet \cup LowerSet \cup DigitSet
HexSet == DigitSet \cup CharsOf("abcdefABCDEF")

\* U+FF1A, the full-width colon, written as U+FFE5 (punctuation as well:
\* neither is \w or \s).
FullwidthColon == "￥"

\* str.isspace / the regex class \s
SpaceSet == {" ", "\t", "\n", "\r", "\f"}

\* The characters that are not \w: white space and punctuation. Python's \w
\* is Unicode-aware, so every letter (CJK included), digit and "_" is \w.
NonWordSet ==
    SpaceSet \cup CharsOf("!\"#$%&'()*+,-./:;<=>?@[\\]^{|}~")
        \cup {BACKTICK, FullwidthColon}

IsSpace(c) == c \in SpaceSet
IsWord(c) == c \notin NonWordSet
IsDigit(c) == c \in DigitSet

LowerMap == [c \in UpperSet |-> Ch(LOWER, CHOOSE i \in 1..26 : Ch(UPPER, i) = c)]

LowerCh(c) == IF c \in UpperSet THEN LowerMap[c] ELSE c

RECURSIVE LowerFrom(_, _)
LowerFrom(s, i) == IF i > Len(s) THEN "" ELSE LowerCh(Ch(s, i)) \o LowerFrom(s, i + 1)

\* str.lower
Lower(s) == LowerFrom(s, 1)

\* p occurs in s at position i
At(s, i, p) == i >= 1 /\ i + Len(p) - 1 <= Len(s) /\ SubSeq(s, i, i + Len(p) - 1) = p

\* `p in s`
Contains(s, p) == \E i \in 1..(Len(s) - Len(p) + 1) : SubSeq(s, i, i + Len(p) - 1) = p

\* str.startswith
StartsWith(s, p) == At(s, 1, p)

\* s[i:] (i counted from 1)
From(s, i) == SubSeq(s, i, Len(s))

RECURSIVE FirstNonSpace(_, _)
FirstNonSpace(s, i) ==
    IF i > Len(s) THEN i
    ELSE IF IsSpace(Ch(s, i)) THEN FirstNonSpace(s, i + 1) ELSE i

RECURSIVE LastNonSpace(_, _)
LastNonSpace(s, i) ==
    IF i < 1 THEN 0
    ELSE IF IsSpace(Ch(s, i)) THEN LastNonSpace(s, i - 1) ELSE i

\* str.strip
Strip(s) == SubSeq(s, FirstNonSpace(s, 1), LastNonSpace(s, Len(s)))

\* The end of the run of white space that starts at i: the first position
\* >= i that holds no white space (Len(s) + 1 when there is none).
SkipSpace(s, i) == FirstNonSpace(s, i)

RECURSIVE WordEnd(_, _)
\* The first position >= i that holds white space (Len(s) + 1 when none).
WordEnd(s, i) ==
    IF i > Len(s) THEN i
    ELSE IF IsSpace(Ch(s, i)) THEN i ELSE WordEnd(s, i + 1)

RECURSIVE WordsFrom(_, _)
WordsFrom(s, i) ==
    LET b == SkipSpace(s, i) IN
    IF b > Len(s) THEN <<>>
    ELSE LET e == WordEnd(s, b) IN <<SubSeq(s, b, e - 1)>> \o WordsFrom(s, e)

\* str.split(): the words between runs of white space
Words(s) == WordsFrom(s, 1)

RECURSIVE LastSlash(_, _)
LastSlash(s, i) == IF i < 1 THEN 0 ELSE IF Ch(s, i) = "/" THEN i ELSE LastSlash(s, i - 1)

\* s.split("/")[-1]
AfterLastSlash(s) == From(s, LastSlash(s, Len(s)) + 1)

\* re.search: the leftmost of the positions where a pattern matches (0 when
\* it matches nowhere).
Leftmost(positions) ==
    IF positions = {} THEN 0
    ELSE CHOOSE i \in positions : \A j \in positions : i <= j

\* The regex assertion \b between positions i - 1 and i of s.
Boundary(s, i) ==
    LET before == i > 1 /\ i - 1 <= Len(s) /\ IsWord(Ch(s, i - 1))
        after == i >= 1 /\ i <= Len(s) /\ IsWord(Ch(s, i))
    IN before # after

\* re.search(r"\b" + re.escape(w) + r"\b", s)
WordSearch(s, w) ==
    \E i \in 1..(Len(s) - Len(w) + 1) :
        /\ SubSeq(s, i, i + Len(w) - 1) = w
        /\ Boundary(s, i)
        /\ Boundary(s, i + Len(w))

(***************************************************************************)
(* safety.py: the command safety gate                                      *)
(***************************************************************************)

\* Python's None
None == "<None>"

UNCONDITIONAL_ALLOW ==
    {"ls", "cat", "pwd", "echo", "printf", "test", "[", "tail", "head",
     "wc", "whoami", "id", "uname", "hostname", "stat", "readlink",
     "basename", "dirname", "realpath", "file", "tree", "md5sum",
     "sha256sum", "sha1sum", "sort", "uniq", "cut", "tr", "nl", "tac",
     "rev", "grep", "egrep", "fgrep", "zgrep", "diff", "comm", "join",
     "paste", "expand", "unexpand", "column", "fold", "fmt", "less", "more",
     "env", "printenv", "locale", "set", "df", "du", "lsblk", "mount",
     "findmnt", "blkid", "find", "locate", "which", "whereis", "type",
     "command", "ps", "pgrep", "pidof", "top", "htop", "free", "uptime",
     "vmstat", "mpstat", "iostat", "sar", "nproc", "getconf", "lsof",
     "fuser", "lscpu", "lsmem", "lspci", "lsusb", "lshw", "dmidecode",
     "hostnamectl", "timedatectl", "localectl", "cat /proc/cpuinfo",
     "cat /proc/meminfo", "date", "cal", "w", "who", "users", "last",
     "lastlog", "finger", "pinky", "groups", "getent", "systemctl status",
     "systemctl is-active", "systemctl is-enabled", "systemctl list-units",
     "systemctl list-unit-files", "systemctl show", "systemctl cat",
     "service", "chkconfig", "journalctl", "dmesg", "ip", "ifconfig", "ss",
     "netstat", "ping", "ping6", "dig", "nslookup", "host", "resolvectl",
     "traceroute", "tracepath", "mtr", "arp", "route", "routel", "curl",
     "wget", "dpkg", "dpkg-query", "apt list", "apt show", "apt-cache",
     "apt-mark", "rpm", "yum list", "yum info", "dnf list", "dnf info",
     "pip list", "pip show", "pip freeze", "pip3 list", "pip3 show",
     "pip3 freeze", "conda list", "conda info", "snap list", "snap info",
     "flatpak list", "flatpak info", "npm list", "npm view", "gem list",
     "gem info", "docker ps", "docker images", "docker logs",
     "docker inspect", "docker stats", "docker top", "docker port",
     "docker diff", "docker history", "docker version", "docker info",
     "docker-compose ps", "docker-compose logs", "docker-compose config",
     "podman ps", "podman images", "podman logs", "podman inspect",
     "git status", "git log", "git diff", "git branch", "git remote",
     "git show", "git ls-files", "git ls-tree", "git rev-parse",
     "git config --list", "git config --get", "getfacl", "getcap", "lsattr",
     "namei", "nvidia-smi", "xhost", "xrandr", "xdpyinfo", "xwininfo",
     "loginctl", "jq", "yq", "bc", "expr", "seq", "yes", "true", "false",
     "sleep", "timeout", "tee", "xargs"}

\* The keys of RESTRICTED_COMMANDS
RESTRICTED_COMMANDS == {"sed", "awk", "perl", "curl", "wget", "tee", "sleep"}

\* rules["forbidden_args"] of each restricted command (empty when absent)
ForbiddenArgs(base_cmd) ==
    CASE base_cmd = "sed" -> {"-i", "--in-place"}
      [] base_cmd = "perl" -> {"-i", "-e.*unlink", "-e.*system"}
      [] base_cmd = "curl" ->
            {"-o", "-O", "--output", "-T", "--upload-file",
             "-X POST", "-X PUT", "-X DELETE"}
      [] base_cmd = "wget" -> {"--post-data", "--post-file", "--method"}
      [] OTHER -> {}

\* rules["allowed_targets"] of tee
TeeAllowedTargets == {"/dev/null", "/dev/stdout", "/dev/stderr", "-"}

\* rules["max_seconds"] of sleep
SleepMaxSeconds == 10

COMBO_ONLY_COMMANDS == {"xargs", "parallel"}

DANGEROUS_COMMANDS ==
    {"rm", "rmdir", "shred", "truncate", "mv", "cp", "chmod", "chown",
     "chgrp", "chattr", "dd", "mkfs", "fdisk", "parted", "gdisk", "mkswap",
     "swapon", "swapoff", "mount", "umount", "reboot", "shutdown",
     "poweroff", "halt", "init", "systemctl start", "systemctl stop",
     "systemctl restart", "systemctl enable", "systemctl disable",
     "service start", "service stop", "service restart", "useradd",
     "userdel", "usermod", "groupadd", "groupdel", "groupmod", "passwd",
     "chpasswd", "newusers", "iptables", "ip6tables", "nft", "ufw",
     "ip link set", "ip addr add", "ip addr del", "ip route add",
     "ip route del", "ifconfig.*up", "ifconfig.*down", "apt install",
     "apt remove", "apt purge", "apt autoremove", "apt-get install",
     "apt-get remove", "apt-get purge", "yum install", "yum remove",
     "yum erase", "dnf install", "dnf remove", "dnf erase", "pip install",
     "pip uninstall", "pip3 install", "pip3 uninstall", "npm install",
     "npm uninstall", "docker run", "docker exec", "docker rm",
     "docker rmi", "docker stop", "docker kill", "docker start",
     "docker-compose up", "docker-compose down", "docker-compose rm",
     "kill", "killall", "pkill", "crontab", "at", "eval", "exec", "nc",
     "ncat", "netcat", "ssh", "scp", "rsync"}

\* The regular expressions of DANGEROUS_PATTERNS, in list order, as text.
DANGEROUS_PATTERNS ==
    << BACKTICK, "\\$\\(", "\\$\\{.*:-.*\\}", "<\\(", ">\\(", ">\\s*[^|&]",
       ">>\\s*", "<\\s*[^<]", "\\|\\|", "(?<!&)&(?!&)", ";\\s*", "\\n", "\\r",
       "\\\\x[0-9a-fA-F]{2}", "\\\\u[0-9a-fA-F]{4}" >>

\* re.search(a + r"\s*" + b, s) for literal a and a literal b that holds no
\* white space: after a, the whole run of white space, then b.
LitSpacesLit(s, a, b) ==
    \E i \in 1..(Len(s) - Len(a) + 1) :
        At(s, i, a) /\ At(s, SkipSpace(s, i + Len(a)), b)

\* re.search(c + r"\s*[^...]", s): the character c, white space, then a
\* character outside `excluded`. The class [^...] accepts white space too, so
\* the run of white space may end early.
CharSpacesNot(s, c, excluded) ==
    \E i \in 1..Len(s) :
        /\ Ch(s, i) = c
        /\ \E j \in (i + 1)..Len(s) :
              /\ \A k \in (i + 1)..(j - 1) : IsSpace(Ch(s, k))
              /\ Ch(s, j) \notin excluded

\* r"\$\{.*:-.*\}" ("." matches no newline)
ParamExpansion(s) ==
    \E i \in 1..Len(s) :
        /\ At(s, i, "${")
        /\ \E j \in (i + 2)..Len(s) :
              /\ At(s, j, ":-")
              /\ \E k \in (j + 2)..Len(s) :
                    /\ Ch(s, k) = "}"
                    /\ \A m \in (i + 2)..(k - 1) : Ch(s, m) # "\n"

\* r"(?<!&)&(?!&)"
LoneAmpersand(s) ==
    \E i \in 1..Len(s) :
        /\ Ch(s, i) = "&"
        /\ ~At(s, i - 1, "&")
        /\ ~At(s, i + 1, "&")

\* r"\\x[0-9a-fA-F]{2}" (n = 2) and r"\\u[0-9a-fA-F]{4}" (n = 4)
HexEscape(s, letter, n) ==
    \E i \in 1..(Len(s) - n - 1) :
        /\ At(s, i, "\\" \o letter)
        /\ \A k \in (i + 2)..(i + 1 + n) : Ch(s, k) \in HexSet

\* re.search(DANGEROUS_PATTERNS[k], s)
PatternMatches(k, s) ==
    CASE k = 1 -> Contains(s, BACKTICK)
      [] k = 2 -> Contains(s, "$(")
      [] k = 3 -> ParamExpansion(s)
      [] k = 4 -> Contains(s, "<(")
      [] k = 5 -> Contains(s, ">(")
      [] k = 6 -> CharSpacesNot(s, ">", {"|", "&"})
      [] k = 7 -> Contains(s, ">>")
      [] k = 8 -> CharSpacesNot(s, "<", {"<"})
      [] k = 9 -> Contains(s, "||")
      [] k = 10 -> LoneAmpersand(s)
      [] k = 11 -> Contains(s, ";")
      [] k = 12 -> Contains(s, "\n")
      [] k = 13 -> Contains(s, "\r")
      [] k = 14 -> HexEscape(s, "x", 2)
      [] k = 15 -> HexEscape(s, "u", 4)

_get_base_command(cmd0) ==
    LET c1 == Strip(cmd0)
        cmd == IF StartsWith(c1, "sudo ") THEN Strip(From(c1, 6)) ELSE c1
        parts == Words(cmd)
    IN IF parts = <<>> THEN ""
       ELSE IF Contains(parts[1], "/") THEN AfterLastSlash(parts[1])
       ELSE parts[1]

RECURSIVE DigitRunEnd(_, _)
\* The first position >= i that holds no digit.
DigitRunEnd(s, i) ==
    IF i > Len(s) THEN i
    ELSE IF IsDigit(Ch(s, i)) THEN DigitRunEnd(s, i + 1) ELSE i

DigitValue(c) == CHOOSE d \in 0..9 : Ch(DIGITS, d + 1) = c

RECURSIVE IntOf(_, _, _)
\* int(s[i:]) for a string of digits, acc the value of the digits before i
IntOf(s, i, acc) ==
    IF i > Len(s) THEN acc ELSE IntOf(s, i + 1, 10 * acc + DigitValue(Ch(s, i)))

\* The starts of the matches of r"sleep\s+(\d+)" in s
SleepMatches(s) ==
    {i \in 1..(Len(s) - 4) :
        /\ At(s, i, "sleep")
        /\ i + 5 <= Len(s) /\ IsSpace(Ch(s, i + 5))
        /\ LET d == SkipSpace(s, i + 5) IN d <= Len(s) /\ IsDigit(Ch(s, d))}

\* int(match.group(1)) of the leftmost match of r"sleep\s+(\d+)"
SleepSeconds(s) ==
    LET i == CHOOSE m \in SleepMatches(s) : \A n \in SleepMatches(s) : m <= n
        d == SkipSpace(s, i + 5)
    IN IntOf(SubSeq(s, d, DigitRunEnd(s, d) - 1), 1, 0)

\* rules["forbidden_patterns"] of awk: system\s*\( , print\s*> , getline\s*<
ForbiddenPatternHit(base_cmd, cmd) ==
    /\ base_cmd = "awk"
    /\ \/ LitSpacesLit(cmd, "system", "(")
       \/ LitSpacesLit(cmd, "print", ">")
       \/ LitSpacesLit(cmd, "getline", "<")

\* The tee rule: some word "tee" is followed by a word that is neither an
\* allowed target nor a flag.
TeeTargetRefused(cmd) ==
    LET parts == Words(cmd) IN
    /\ Len(parts) > 1
    /\ \E i \in 1..(Len(parts) - 1) :
          /\ parts[i] = "tee"
          /\ parts[i + 1] \notin TeeAllowedTargets
          /\ ~StartsWith(parts[i + 1], "-")

_check_restricted_command(cmd, base_cmd) ==
    IF base_cmd \notin RESTRICTED_COMMANDS THEN TRUE
    ELSE IF \E forbidden \in ForbiddenArgs(base_cmd) : Contains(cmd, forbidden)
    THEN FALSE
    ELSE IF ForbiddenPatternHit(base_cmd, cmd) THEN FALSE
    ELSE IF /\ base_cmd = "sleep"
            /\ SleepMatches(cmd) # {}
            /\ SleepSeconds(cmd) > SleepMaxSeconds
    THEN FALSE
    ELSE IF base_cmd = "tee" /\ TeeTargetRefused(cmd) THEN FALSE
    ELSE TRUE

IdentStartSet == UpperSet \cup LowerSet \cup {"_"}
IdentSet == AlnumSet \cup {"_"}

RECURSIVE IdentEnd(_, _)
\* The first position >= i that holds no character of [A-Za-z0-9_]
IdentEnd(s, i) ==
    IF i > Len(s) THEN i
    ELSE IF Ch(s, i) \in IdentSet THEN IdentEnd(s, i + 1) ELSE i

\* re.match(r"^[A-Za-z_][A-Za-z0-9_]*=.*$", s): "." matches no newline and
\* "$" also matches before one trailing newline.
AssignmentRe(s) ==
    /\ Len(s) >= 2
    /\ Ch(s, 1) \in IdentStartSet
    /\ LET e == IdentEnd(s, 2) IN
          /\ e <= Len(s) /\ Ch(s, e) = "="
          /\ \A k \in (e + 1)..(Len(s) - 1) : Ch(s, k) # "\n"

\* The loop over UNCONDITIONAL_ALLOW. An entry with a space accepts sub when
\* sub is the entry or starts with it and a space; an entry without one
\* accepts when it equals base_cmd, subject to the restricted rules. The set
\* is walked in hash order, which cannot change the answer: the first word
\* of no entry with a space is a restricted command.
AllowLoop(sub, original_sub, base_cmd) ==
    \/ \E allowed \in UNCONDITIONAL_ALLOW :
          /\ Contains(allowed, " ")
          /\ (sub = allowed \/ StartsWith(sub, allowed \o " "))
    \/ /\ base_cmd \in UNCONDITIONAL_ALLOW
       /\ ~Contains(base_cmd, " ")
       /\ (base_cmd \in RESTRICTED_COMMANDS =>
              _check_restricted_command(original_sub, base_cmd))

_is_allowed_subcmd(sub0) ==
    LET original_sub == Strip(sub0) IN
    IF original_sub = "" THEN FALSE
    ELSE
    LET sub == IF StartsWith(original_sub, "sudo ")
               THEN Strip(From(original_sub, 6)) ELSE original_sub
        assignment == Contains(sub, "=") /\ ~Contains(sub, " ")
    IN IF assignment
          /\ \E bad \in {BACKTICK, "$(", "\n", "\r", ";"} : Contains(sub, bad)
       THEN FALSE
       ELSE IF assignment /\ AssignmentRe(sub) THEN TRUE
       ELSE LET base_cmd == _get_base_command(sub) IN
            IF base_cmd = "" THEN FALSE
            ELSE AllowLoop(sub, original_sub, base_cmd)

\* A pattern check that skips r">\s*[^|&]", the redirection to a file.
PatternsButRedirection(cmd) ==
    \A k \in 1..Len(DANGEROUS_PATTERNS) : k # 6 => ~PatternMatches(k, cmd)

\* True means safe: no pattern of DANGEROUS_PATTERNS is found in cmd.
_check_dangerous_patterns(cmd) ==
    \A k \in 1..Len(DANGEROUS_PATTERNS) : ~PatternMatches(k, cmd)

\* A deny check that knows the entries of one word only.
DangerousWordHit(dangerous, cmd_lower) ==
    ~Contains(dangerous, " ") /\ WordSearch(cmd_lower, dangerous)

\* One entry of DANGEROUS_COMMANDS against the lower-cased command: an entry
\* with a space is searched as a substring, the others between \b and \b.
DangerousHit(dangerous, cmd_lower) ==
    IF Contains(dangerous, " ") THEN Contains(cmd_lower, dangerous)
    ELSE WordSearch(cmd_lower, dangerous)

\* True means safe.
_check_dangerous_commands(cmd) ==
    LET cmd_lower == Lower(cmd) IN
    \A dangerous \in DANGEROUS_COMMANDS : ~DangerousHit(dangerous, cmd_lower)

RECURSIVE SplitFrom(_, _, _)
\* The pieces of s between the delimiters "|" and "&&", scanning from i with
\* the current piece starting at b.
SplitFrom(s, i, b) ==
    IF i > Len(s) THEN <<SubSeq(s, b, Len(s))>>
    ELSE IF Ch(s, i) = "|" THEN <<SubSeq(s, b, i - 1)>> \o SplitFrom(s, i + 1, i + 1)
    ELSE IF At(s, i, "&&") THEN <<SubSeq(s, b, i - 1)>> \o SplitFrom(s, i + 2, i + 2)
    ELSE SplitFrom(s, i + 1, b)

LStrip(s) == From(s, FirstNonSpace(s, 1))
RStrip(s) == SubSeq(s, 1, LastNonSpace(s, Len(s)))

\* re.split(r"\s*\|\s*|\s*&&\s*", cmd): each delimiter takes the white space
\* on both of its sides with it.
SplitPipeline(cmd) ==
    LET raw == SplitFrom(cmd, 1, 1)
        n == Len(raw)
    IN [k \in 1..n |->
          LET l == IF k > 1 THEN LStrip(raw[k]) ELSE raw[k]
          IN IF k < n THEN RStrip(l) ELSE l]

\* The body of the loop of is_safe_scout_cmd for parts[i] (i counted from 1):
\* TRUE when the loop goes on, FALSE when it returns False.
SubcmdAccepted(parts, i) ==
    LET sub == Strip(parts[i]) IN
    IF sub = "" THEN TRUE
    ELSE IF _get_base_command(sub) \in COMBO_ONLY_COMMANDS /\ i = 1 THEN FALSE
    ELSE _is_allowed_subcmd(sub)

is_safe_scout_cmd(cmd0) ==
    LET cmd == Strip(cmd0) IN
    IF cmd = "" THEN FALSE
    ELSE IF ~_check_dangerous_patterns(cmd) THEN FALSE
    ELSE IF ~_check_dangerous_commands(cmd) THEN FALSE
    ELSE LET parts == SplitPipeline(cmd) IN
         \A i \in 1..Len(parts) : SubcmdAccepted(parts, i)

\* The texts of get_safety_reason, under the renaming of characters above:
\*   空命令 / 包含危险模式: / 包含危险命令: / 命令不在白名单中:
ReasonEmpty == "侪亻令"
ReasonPattern == "京亹亳俒侏仗: "
ReasonCommand == "京亹亳俒亻令: "
ReasonNotAllowed == "亻令亃亽侠亵亱亇: "

\* get_safety_reason(cmd): the values it can return. DANGEROUS_COMMANDS is a
\* set, walked in hash order, so when several entries match, the entry named
\* is any of them.
get_safety_reason(cmd0) ==
    LET cmd == Strip(cmd0) IN
    IF cmd = "" THEN {ReasonEmpty}
    ELSE IF ~_check_dangerous_patterns(cmd)
    THEN LET k == CHOOSE m \in 1..Len(DANGEROUS_PATTERNS) :
                      /\ PatternMatches(m, cmd)
                      /\ \A n \in 1..(m - 1) : ~PatternMatches(n, cmd)
         IN {ReasonPattern \o DANGEROUS_PATTERNS[k]}
    ELSE LET cmd_lower == Lower(cmd)
             hits == {d \in DANGEROUS_COMMANDS : DangerousHit(d, cmd_lower)} IN
         IF hits # {} THEN {ReasonCommand \o d : d \in hits}
         ELSE LET parts == SplitPipeline(cmd)
                  refused == {i \in 1..Len(parts) :
                                 /\ Strip(parts[i]) # ""
                                 /\ ~_is_allowed_subcmd(Strip(parts[i]))}
              IN IF refused = {} THEN {None}
                 ELSE LET i == CHOOSE m \in refused : \A n \in refused : m <= n
                      IN {ReasonNotAllowed \o _get_base_command(Strip(parts[i]))}

(***************************************************************************)
(* domains.py: validation helpers and the domain planner                   *)
(***************************************************************************)

\* TaskComplexity
TRIVIAL == 1
SIMPLE == 2
MODERATE == 3
COMPLEX == 4

\* The characters shlex.quote leaves alone: [a-zA-Z0-9_@%+=:,./-]
ShlexSafeSet == AlnumSet \cup CharsOf("_@%+=:,./-")

RECURSIVE ReplaceQuotes(_, _)
\* s.replace("'", "'\"'\"'"), from position i
ReplaceQuotes(s, i) ==
    IF i > Len(s) THEN ""
    ELSE (IF Ch(s, i) = "'" THEN "'\"'\"'" ELSE Ch(s, i)) \o ReplaceQuotes(s, i + 1)

\* shlex.quote
q(s) ==
    IF s = "" THEN "''"
    ELSE IF \A i \in 1..Len(s) : Ch(s, i) \in ShlexSafeSet THEN s
    ELSE "'" \o ReplaceQuotes(s, 1) \o "'"

\* [a-zA-Z0-9._:@+-]
SafeNameSet == AlnumSet \cup CharsOf("._:@+-")
\* [a-zA-Z0-9._/~@+-]
SafePathSet == AlnumSet \cup CharsOf("._/~@+-")

\* safe_name; "" stands for None
safe_name(s0) ==
    LET s == Strip(s0) IN
    IF s # "" /\ Len(s) <= 128 /\ \A i \in 1..Len(s) : Ch(s, i) \in SafeNameSet
    THEN s ELSE ""

\* safe_port; "" stands for None
safe_port(s0) ==
    LET s == Strip(s0) IN
    IF /\ Len(s) >= 1 /\ Len(s) <= 5
       /\ \A i \in 1..Len(s) : IsDigit(Ch(s, i))
       /\ 0 < IntOf(s, 1, 0) /\ IntOf(s, 1, 0) < 65536
    THEN s ELSE ""

\* safe_path; "" stands for None
safe_path(s0) ==
    LET s == Strip(s0) IN
    IF s # "" /\ \A i \in 1..Len(s) : Ch(s, i) \in SafePathSet THEN s ELSE ""

\* The dictionary with no key.
EmptyDict == [k \in {} |-> ""]

\* The entity keys the generators read.
EntityKeys ==
    {"path", "filename", "target", "process", "pid", "port", "ip", "domain",
     "service", "package", "container", "user"}

\* entities.get(k): "" when the key is missing (a missing key, None and ""
\* are all falsy, which is all the generators test).
Get(entities, k) == IF k \in DOMAIN entities THEN entities[k] ELSE ""

\* Python's `a or b` on strings
Or(a, b) == IF a # "" THEN a ELSE b

file_commands(entities) ==
    LET path == Get(entities, "path")
        filename == Or(Get(entities, "filename"), Get(entities, "target"))
    IN (IF path # ""
        THEN << "ls -la " \o q(path), "file " \o q(path), "stat " \o q(path) >>
        ELSE <<>>)
       \o (IF filename # "" /\ path = ""
           THEN << "find . -maxdepth 5 -name " \o q(filename) \o " -type f",
                   "find /home -maxdepth 4 -name " \o q(filename)
                       \o " -type f 2>/dev/null || true",
                   "locate " \o q(filename) \o " 2>/dev/null | head -10 || true" >>
           ELSE <<>>)
       \o (IF path = "" /\ filename = "" THEN << "pwd", "ls -la" >> ELSE <<>>)

process_commands(entities) ==
    LET target == Or(Get(entities, "target"), Get(entities, "process"))
        pid == Get(entities, "pid")
        port == Get(entities, "port")
    IN (IF pid # ""
        THEN << "ps -p " \o pid \o " -o pid,ppid,user,%cpu,%mem,stat,start,time,command",
                "ls -l /proc/" \o pid \o "/fd 2>/dev/null | head -20 || true" >>
        ELSE IF target # ""
        THEN << "pgrep -a " \o q(target),
                "ps aux | grep -i " \o q(target) \o " | grep -v grep" >>
        ELSE IF port # ""
        THEN << "ss -tlnp 'sport = :" \o port \o "'",
                "lsof -i :" \o port \o " 2>/dev/null || true" >>
        ELSE << "ps aux --sort=-%mem | head -15", "ps aux --sort=-%cpu | head -15" >>)
       \o << "free -h", "uptime" >>

network_commands(entities) ==
    LET port == Get(entities, "port")
        ip == Get(entities, "ip")
        domain == Or(Get(entities, "domain"), Get(entities, "target"))
    IN << "ip -br addr" >>
       \o (IF port # ""
           THEN << "ss -tlnp 'sport = :" \o port \o "'",
                   "ss -tlnp 'dport = :" \o port \o "'" >>
           ELSE <<>>)
       \o (IF ip # "" THEN << "ping -c 2 -W 2 " \o ip >> ELSE <<>>)
       \o (IF domain # "" /\ ip = ""
           THEN << "dig +short " \o q(domain), "ping -c 2 -W 2 " \o q(domain) >>
           ELSE <<>>)
       \o (IF port = "" THEN << "ss -tlnH | head -20" >> ELSE <<>>)
       \o << "cat /etc/resolv.conf" >>

service_commands(entities) ==
    LET service == Or(Get(entities, "service"), Get(entities, "target")) IN
    IF service # ""
    THEN LET s_service == safe_name(service) IN
         IF s_service # ""
         THEN << "systemctl status " \o s_service \o " --no-pager -l",
                 "systemctl is-active " \o s_service,
                 "systemctl is-enabled " \o s_service,
                 "journalctl -u " \o s_service \o " -n 30 --no-pager" >>
         ELSE <<>>
    ELSE << "systemctl list-units --type=service --state=running --no-pager",
            "systemctl list-units --type=service --state=failed --no-pager" >>

system_commands(entities) ==
    << "uname -a", "cat /etc/os-release", "hostnamectl", "uptime", "free -h",
       "df -hT", "lscpu | head -20", "date" >>

software_commands(entities) ==
    LET package == Or(Get(entities, "package"), Get(entities, "target"))
        s_pkg == safe_name(package)
    IN << "command -v apt dpkg pip pip3 snap flatpak conda" >>
       \o (IF package # "" /\ s_pkg # ""
           THEN << "dpkg -l " \o s_pkg \o " 2>/dev/null || true",
                   "apt-cache policy " \o s_pkg \o " 2>/dev/null || true",
                   "pip3 show " \o s_pkg \o " 2>/dev/null || true",
                   "snap list " \o s_pkg \o " 2>/dev/null || true",
                   "which " \o s_pkg \o " 2>/dev/null || true" >>
           ELSE <<>>)

storage_commands(entities) ==
    LET path == Get(entities, "path")
        target == Get(entities, "target")
    IN << "lsblk -o NAME,SIZE,TYPE,MOUNTPOINT,LABEL,MODEL,FSTYPE,UUID,PARTLABEL",
          "df -hT",
          "findmnt -l -o TARGET,SOURCE,FSTYPE,LABEL" >>
       \o (IF path # ""
           THEN << "df -hT " \o q(path), "du -sh " \o q(path), "ls -la " \o q(path) >>
           ELSE <<>>)
       \o (IF target # ""
           THEN << "find /mnt /media /run/media -maxdepth 2 -type d -iname "
                       \o q("*" \o target \o "*") \o " 2>/dev/null || true",
                   "blkid",
                   "lsblk -o NAME,SIZE,MODEL,LABEL,MOUNTPOINT | grep -v 'loop\\|ram' | grep -i "
                       \o q(target)
                       \o " || lsblk -e7 -o NAME,SIZE,MODEL,LABEL,MOUNTPOINT" >>
           ELSE <<>>)

container_commands(entities) ==
    LET container == Or(Get(entities, "container"), Get(entities, "target")) IN
    << "command -v docker podman docker-compose" >>
    \o (IF container # ""
        THEN << "docker ps -a --filter name=" \o q(container)
                    \o " --format 'table {{.ID}}\\t{{.Image}}\\t{{.Status}}\\t{{.Names}}'",
                "docker inspect " \o q(container) \o " 2>/dev/null | head -50 || true",
                "docker logs --tail 30 " \o q(container) \o " 2>/dev/null || true" >>
        ELSE << "docker ps --format 'table {{.ID}}\\t{{.Image}}\\t{{.Status}}\\t{{.Names}}'",
                "docker images --format 'table {{.Repository}}\\t{{.Tag}}\\t{{.Size}}'" >>)

user_commands(entities) ==
    LET user == Or(Get(entities, "user"), Get(entities, "target"))
        path == Get(entities, "path")
    IN << "id", "whoami", "groups" >>
       \o (IF user # ""
           THEN << "id " \o q(user) \o " 2>/dev/null || true",
                   "getent passwd " \o q(user) >>
           ELSE <<>>)
       \o (IF path # ""
           THEN << "ls -la " \o q(path),
                   "getfacl " \o q(path) \o " 2>/dev/null || true",
                   "stat " \o q(path) >>
           ELSE <<>>)
       \o << "w", "last -5" >>

log_commands(entities) ==
    LET service == Or(Get(entities, "service"), Get(entities, "target")) IN
    IF service # ""
    THEN LET s_service == safe_name(service) IN
         IF s_service # ""
         THEN << "journalctl -u " \o s_service \o " -n 50 --no-pager",
                 "journalctl -u " \o s_service \o " -p err -n 20 --no-pager",
                 "find /var/log -maxdepth 2 -name '*" \o s_service
                     \o "*' -type f 2>/dev/null" >>
         ELSE <<>>
    ELSE << "journalctl -p err -n 30 --no-pager",
            "dmesg | tail -30",
            "ls -lt /var/log/*.log 2>/dev/null | head -10" >>

\* The keys of domain_methods, in the order of the dictionary.
DomainNames ==
    << "file", "process", "network", "service", "system", "software",
       "storage", "container", "user", "log" >>

SUPPORTED_DOMAINS == {DomainNames[i] : i \in 1..Len(DomainNames)}

\* domain_methods[domain](entities, query)
DomainCommands(domain, entities) ==
    CASE domain = "file" -> file_commands(entities)
      [] domain = "process" -> process_commands(entities)
      [] domain = "network" -> network_commands(entities)
      [] domain = "service" -> service_commands(entities)
      [] domain = "system" -> system_commands(entities)
      [] domain = "software" -> software_commands(entities)
      [] domain = "storage" -> storage_commands(entities)
      [] domain = "container" -> container_commands(entities)
      [] domain = "user" -> user_commands(entities)
      [] domain = "log" -> log_commands(entities)

\* seq[:n]
Take(seq, n) == SubSeq(seq, 1, IF n < Len(seq) THEN n ELSE Len(seq))

\* The slice of one domain's commands: 3 for SIMPLE, 5 for MODERATE, all
\* for COMPLEX.
DomainSlice(domain_cmds, complexity) ==
    IF complexity = SIMPLE THEN Take(domain_cmds, 3)
    ELSE IF complexity = MODERATE THEN Take(domain_cmds, 5)
    ELSE domain_cmds

RECURSIVE CollectCommands(_, _, _, _)
\* cmd_set after the loop over domains[i..]; a domain that is no key of
\* domain_methods adds nothing.
CollectCommands(domains, i, entities, complexity) ==
    IF i > Len(domains) THEN <<>>
    ELSE (IF domains[i] \in SUPPORTED_DOMAINS
          THEN DomainSlice(DomainCommands(domains[i], entities), complexity)
          ELSE <<>>)
         \o CollectCommands(domains, i + 1, entities, complexity)

RECURSIVE Unique(_, _, _)
\* unique_cmds: the commands of cmd_set[i..] not in seen, first occurrences kept
Unique(cmd_set, i, seen) ==
    IF i > Len(cmd_set) THEN <<>>
    ELSE IF cmd_set[i] \in seen THEN Unique(cmd_set, i + 1, seen)
    ELSE <<cmd_set[i]>> \o Unique(cmd_set, i + 1, seen \cup {cmd_set[i]})

\* max_cmds.get(complexity, 10)
MaxCmds(complexity) ==
    IF complexity = SIMPLE THEN 5
    ELSE IF complexity = MODERATE THEN 10
    ELSE IF complexity = COMPLEX THEN 20
    ELSE 10

\* A planner that neither drops the repeated commands nor cuts the list.
CollectedCommands(domains, entities, complexity) ==
    IF complexity = TRIVIAL THEN <<>>
    ELSE CollectCommands(domains, 1, entities, complexity)

get_scout_commands(domains, entities, complexity) ==
    IF complexity = TRIVIAL THEN <<>>
    ELSE Take(Unique(CollectCommands(domains, 1, entities, complexity), 1, {}),
              MaxCmds(complexity))

(***************************************************************************)
(* domains.py: extract_facts                                               *)
(***************************************************************************)

RECURSIVE Join(_, _)
\* sep.join(parts)
Join(parts, sep) ==
    IF parts = <<>> THEN ""
    ELSE IF Len(parts) = 1 THEN parts[1]
    ELSE parts[1] \o sep \o Join(Tail(parts), sep)

\* s.split()[-1]
LastWord(s) == Words(s)[Len(Words(s))]

\* The digits of re.search(r"sport\s*=\s*:(\d+)", cmd) ("" when no match)
SportOf(cmd) ==
    LET Digits(j) ==
            LET p == SkipSpace(cmd, j + 5) IN
            IF At(cmd, p, "=") /\ At(cmd, SkipSpace(cmd, p + 1), ":")
            THEN SubSeq(cmd, SkipSpace(cmd, p + 1) + 1,
                        DigitRunEnd(cmd, SkipSpace(cmd, p + 1) + 1) - 1)
            ELSE ""
        i == Leftmost({j \in 1..Len(cmd) : At(cmd, j, "sport") /\ Digits(j) # ""})
    IN IF i = 0 THEN "" ELSE Digits(i)

\* The text a probe that exits with 0 writes to stdout. The model runs no
\* shell: every probe that succeeds prints this one line.
ProbeOutput == "out"

\* The entry of raw_outputs for one result (<<>> when it adds none); stdout
\* and stderr are shorter than the cuts at 1000 and 500 characters.
RawOutput(res) ==
    IF Strip(res.stdout) # "" THEN << "$ " \o res.cmd \o "\n" \o res.stdout >>
    ELSE IF Strip(res.stderr) # "" /\ res.rc # 0
    THEN << "$ " \o res.cmd \o "\n[ERROR] " \o res.stderr >>
    ELSE <<>>

\* The facts one result adds, for a stdout that is "" or ProbeOutput: one
\* line that starts with neither "-" nor "d", holds no "Active:", "error",
\* "fail" or "ii", and is no header of docker ps.
FactsOfResult(res) ==
    LET cmd == res.cmd
        out == res.stdout
        rc == res.rc
        has_out == Strip(out) # ""
    IN (IF StartsWith(cmd, "ls -")
        THEN IF rc = 0 /\ has_out THEN << "FILE_EXISTS: " \o LastWord(cmd) >>
             ELSE IF rc # 0 THEN << "FILE_NOT_FOUND: " \o LastWord(cmd) >>
             ELSE <<>>
        ELSE <<>>)
       \o (IF StartsWith(cmd, "find ") /\ rc = 0 /\ has_out
           THEN << "FOUND_FILES: " \o Strip(out) >> ELSE <<>>)
       \o (IF (StartsWith(cmd, "ps ") \/ Contains(cmd, "pgrep")) /\ rc = 0 /\ has_out
           THEN << "PROCESS_FOUND: 1 matches", "  PROC: " \o out >> ELSE <<>>)
       \o (IF (Contains(cmd, "top") \/ StartsWith(cmd, "free")) /\ rc = 0 /\ has_out
           THEN << "RESOURCE_INFO: " \o out >> ELSE <<>>)
       \o (IF StartsWith(cmd, "ss ") /\ Contains(cmd, "sport") /\ SportOf(cmd) # ""
           THEN << "PORT_" \o SportOf(cmd) \o "_LISTENING: "
                       \o (IF has_out THEN "yes" ELSE "no") >>
           ELSE <<>>)
       \o (IF Contains(cmd, "docker ps") /\ rc = 0
           THEN IF has_out
                THEN << "DOCKER_CONTAINERS: 1 running", "  CONTAINER: " \o out >>
                ELSE << "DOCKER_CONTAINERS: none running" >>
           ELSE <<>>)
       \o (IF StartsWith(cmd, "which") \/ StartsWith(cmd, "command -v")
           THEN IF rc = 0 /\ has_out THEN << "TOOL_FOUND: " \o Strip(out) >>
                ELSE IF rc # 0 THEN << "TOOL_NOT_FOUND: " \o LastWord(cmd) >>
                ELSE <<>>
           ELSE <<>>)
       \o (IF StartsWith(cmd, "uname") /\ rc = 0
           THEN << "SYSTEM_INFO: " \o Strip(out) >> ELSE <<>>)
       \o (IF StartsWith(cmd, "df") /\ rc = 0
           THEN << "DISK_USAGE:\n" \o out >> ELSE <<>>)
       \o (IF StartsWith(cmd, "lsblk") /\ rc = 0
           THEN << "BLOCK_DEVICES:\n" \o out >> ELSE <<>>)

RECURSIVE Flatten(_)
\* The concatenation of the lists of a list
Flatten(lists) ==
    IF lists = <<>> THEN <<>> ELSE Head(lists) \o Flatten(Tail(lists))

extract_facts(results) ==
    LET facts == Flatten([i \in 1..Len(results) |-> FactsOfResult(results[i])])
        raw_outputs == Flatten([i \in 1..Len(results) |-> RawOutput(results[i])])
        facts_str == IF facts # <<>> THEN Join(facts, "\n")
                     ELSE "No structured facts extracted."
        raw_str == IF raw_outputs # <<>> THEN Join(Take(raw_outputs, 15), "\n---\n")
                   ELSE "No raw output."
    IN "[EXTRACTED FACTS]\n" \o facts_str \o "\n\n[RAW SCOUT OUTPUT]\n" \o raw_str

(***************************************************************************)
(* graph.py: tables, entity extraction and the complexity heuristic        *)
(***************************************************************************)

\* TRIVIAL_PATTERNS: each pattern is ^(a|b|...)$, written as the set of its
\* alternatives.
\* ^(pwd|当前目录|当前路径|我在哪)$
\* ^(whoami|我是谁|当前用户)$
\* ^(date|时间|日期|几点|什么时候)$
\* ^(uptime|运行时间|开机多久)$
\* ^(hostname|主机名)$
\* ^(uname|系统版本|内核版本)$
\* ^(id|用户id|用户信息)$
\* ^(df|磁盘空间|磁盘使用)$
\* ^(free|内存|内存使用)$
TRIVIAL_PATTERNS ==
    <<
       {"pwd", "仛享目仜", "仛享路径", "仧亽哪"},
       {"whoami", "仧仼侻", "仛享侙仩"},
       {"date", "时间", "日侁", "几点", "什亍时亗"},
       {"uptime", "运侸时间", "仔侃仇二"},
       {"hostname", "争侃亵"},
       {"uname", "系统侕侂", "内例侕侂"},
       {"id", "侙仩id", "侙仩信仡"},
       {"df", "磁盘侪间", "磁盘亖侙"},
       {"free", "内仌", "内仌亖侙"}
    >>

\* 为什么 怎么回事 排查 诊断 问题 不工作 失败 错误 异常 故障 无法 不能 连不上 打不开 起不来
DIAGNOSTIC_KEYWORDS ==
    <<"予什亍", "仞亍回事", "排查", "诊断", "问题",
      "亃工五", "仉侽", "俋误", "仕仑", "仸障",
      "无法", "亃能", "连亃亁", "仫亃仔", "係亃侇">>

\* TRIVIAL_COMMANDS; the keys beyond ASCII are, in order:
\* 当前目录 当前路径 我在哪 我是谁 当前用户 时间 日期 几点 运行时间 开机多久 主机名 用户id 磁盘空间 磁盘使用 内存 内存使用
TRIVIAL_COMMANDS ==
    [k \in {"pwd", "仛享目仜", "仛享路径", "仧亽哪", "whoami", "仧仼侻"}
         \cup {"仛享侙仩", "date", "时间", "日侁", "几点", "uptime"}
         \cup {"运侸时间", "仔侃仇二", "hostname", "争侃亵", "id", "侙仩id"}
         \cup {"df", "磁盘侪间", "磁盘亖侙", "free", "内仌", "内仌亖侙"} |->
        CASE k = "pwd" -> "pwd"
          [] k = "仛享目仜" -> "pwd"
          [] k = "仛享路径" -> "pwd"
          [] k = "仧亽哪" -> "pwd"
          [] k = "whoami" -> "whoami"
          [] k = "仧仼侻" -> "whoami"
          [] k = "仛享侙仩" -> "whoami"
          [] k = "date" -> "date"
          [] k = "时间" -> "date '+%Y-%m-%d %H:%M:%S'"
          [] k = "日侁" -> "date '+%Y-%m-%d'"
          [] k = "几点" -> "date '+%H:%M:%S'"
          [] k = "uptime" -> "uptime"
          [] k = "运侸时间" -> "uptime"
          [] k = "仔侃仇二" -> "uptime"
          [] k = "hostname" -> "hostname"
          [] k = "争侃亵" -> "hostname"
          [] k = "id" -> "id"
          [] k = "侙仩id" -> "id"
          [] k = "df" -> "df -h"
          [] k = "磁盘侪间" -> "df -h"
          [] k = "磁盘亖侙" -> "df -h"
          [] k = "free" -> "free -h"
          [] k = "内仌" -> "free -h"
          [] k = "内仌亖侙" -> "free -h"]

KNOWN_TOOLS ==
    {"apache", "cmake", "code", "curl", "docker", "emacs", "ffmpeg",
     "ffplay", "ffprobe", "g++", "gcc", "git", "gradle", "gzip",
     "htop", "java", "javac", "jupyter", "kill", "make", "mongo",
     "mplayer", "mpv", "mvn", "mysql", "nano", "nginx", "node",
     "npm", "npx", "pip", "pip3", "podman", "ps", "psql",
     "python", "python3", "redis-cli", "scp", "ssh", "streamlit", "systemctl",
     "tar", "tensorboard", "top", "unzip", "vim", "vlc", "wget",
     "zip"}

\* [:<U+FF1A>]
ColonSet == {":", FullwidthColon}

LetterSet == UpperSet \cup LowerSet
\* [A-Za-z0-9_-]
StemSet == AlnumSet \cup {"_", "-"}
\* [a-zA-Z0-9-]
LabelSet == AlnumSet \cup {"-"}
\* [A-Za-z0-9._/-]
PathSet == AlnumSet \cup {".", "_", "/", "-"}

RECURSIVE RunEnd(_, _, _)
\* The end of the greedy run of characters of class that starts at i: the
\* first position >= i whose character is not in class.
RunEnd(s, i, class) ==
    IF i > Len(s) THEN i
    ELSE IF Ch(s, i) \in class THEN RunEnd(s, i + 1, class) ELSE i

\* The keyword of kws that s holds at position i, case ignored ("" when
\* none does; no two keywords of one pattern start alike).
KeywordAt(s, i, kws) ==
    LET hit == {k \in kws : At(Lower(s), i, k)} IN
    IF hit = {} THEN "" ELSE CHOOSE k \in hit : TRUE

\* \s*[c]?\s*[:<U+FF1A>]?\s* from position p, optional being the characters
\* of the first class: the position after the greedy match. The classes are
\* disjoint from each other and from what follows, so no other match exists.
SkipLabel(s, p, optional) ==
    LET p1 == SkipSpace(s, p)
        p2 == IF p1 <= Len(s) /\ LowerCh(Ch(s, p1)) \in optional THEN p1 + 1 ELSE p1
        p3 == SkipSpace(s, p2)
        p4 == IF p3 <= Len(s) /\ Ch(s, p3) \in ColonSet THEN p3 + 1 ELSE p3
    IN SkipSpace(s, p4)

\* _FILENAME_RE = (?<![/\\])\b([A-Za-z0-9_-]+\.[A-Za-z0-9]{1,10})\b
\* The end (exclusive) of the match that starts at i, 0 when there is none.
FilenameAt(s, i) ==
    LET a == RunEnd(s, i, StemSet)
        b == RunEnd(s, a + 1, AlnumSet)
    IN IF /\ (i = 1 \/ Ch(s, i - 1) \notin {"/", "\\"})
          /\ Boundary(s, i)
          /\ a > i /\ a <= Len(s) /\ Ch(s, a) = "."
          /\ b - (a + 1) >= 1 /\ b - (a + 1) <= 10
          /\ Boundary(s, b)
       THEN b ELSE 0

FilenameOf(s) ==
    LET i == Leftmost({j \in 1..Len(s) : FilenameAt(s, j) # 0}) IN
    IF i = 0 THEN "" ELSE SubSeq(s, i, FilenameAt(s, i) - 1)

\* _PORT_RE = (<U+7AEF U+53E3>|port)\s*[:<U+FF1A>]?\s*(\d{2,5}), IGNORECASE
\* The start of group 2 for the match that starts at i, 0 when none.
PortAt(s, i) ==
    LET kw == KeywordAt(s, i, {"端口", "port"})
        p == SkipLabel(s, i + Len(kw), {})
    IN IF kw # "" /\ DigitRunEnd(s, p) - p >= 2 THEN p ELSE 0

\* m.group(2) of _PORT_RE: at most five digits
PortOf(s) ==
    LET i == Leftmost({j \in 1..Len(s) : PortAt(s, j) # 0}) IN
    IF i = 0 THEN ""
    ELSE LET p == PortAt(s, i)
             e == DigitRunEnd(s, p)
         IN SubSeq(s, p, (IF e - p > 5 THEN p + 5 ELSE e) - 1)

\* _PATH_RE = (/[A-Za-z0-9._/-]+)
PathOf(s) ==
    LET i == Leftmost({j \in 1..Len(s) :
                          Ch(s, j) = "/" /\ j < Len(s) /\ Ch(s, j + 1) \in PathSet})
    IN IF i = 0 THEN "" ELSE SubSeq(s, i, RunEnd(s, i + 1, PathSet) - 1)

\* \d{1,3}\. at i: the position after the dot, 0 when there is no match.
OctetDot(s, i) ==
    LET e == DigitRunEnd(s, i) IN
    IF i # 0 /\ e - i >= 1 /\ e - i <= 3 /\ e <= Len(s) /\ Ch(s, e) = "."
    THEN e + 1 ELSE 0

\* _IP_RE = \b(\d{1,3}\.\d{1,3}\.\d{1,3}\.\d{1,3})\b
IpAt(s, i) ==
    LET d == OctetDot(s, OctetDot(s, OctetDot(s, i)))
        e == DigitRunEnd(s, d)
    IN IF Boundary(s, i) /\ d # 0 /\ e - d >= 1 /\ e - d <= 3 /\ Boundary(s, e)
       THEN e ELSE 0

IpOf(s) ==
    LET i == Leftmost({j \in 1..Len(s) : IpAt(s, j) # 0}) IN
    IF i = 0 THEN "" ELSE SubSeq(s, i, IpAt(s, i) - 1)

\* _DOMAIN_RE = \b([a-zA-Z0-9-]+\.[a-zA-Z]{2,})\b
DomainAt(s, i) ==
    LET a == RunEnd(s, i, LabelSet)
        b == RunEnd(s, a + 1, LetterSet)
    IN IF /\ Boundary(s, i)
          /\ a > i /\ a <= Len(s) /\ Ch(s, a) = "."
          /\ b - (a + 1) >= 2
          /\ Boundary(s, b)
       THEN b ELSE 0

DomainOf(s) ==
    LET i == Leftmost({j \in 1..Len(s) : DomainAt(s, j) # 0}) IN
    IF i = 0 THEN "" ELSE SubSeq(s, i, DomainAt(s, i) - 1)

\* _CONTAINER_RE =
\*   (<U+5BB9 U+5668>|container|docker|podman)\s*[<U+540D>id]?\s*[:<U+FF1A>]?\s*([a-zA-Z0-9_-]+)?
\* IGNORECASE. Everything after the keyword is optional, so the match is at
\* the leftmost keyword and group 2 is what the greedy match leaves it.
ContainerOf(s) ==
    LET kws == {"容亼", "container", "docker", "podman"}
        i == Leftmost({j \in 1..Len(s) : KeywordAt(s, j, kws) # ""})
    IN IF i = 0 THEN ""
       ELSE LET p == SkipLabel(s, i + Len(KeywordAt(s, i, kws)), {"亵", "i", "d"})
            IN SubSeq(s, p, RunEnd(s, p, StemSet) - 1)

\* _PID_RE = (<U+8FDB U+7A0B>|pid|process)\s*[<U+53F7>id]?\s*[:<U+FF1A>]?\s*(\d+)
\* IGNORECASE. The start of group 2 for the match that starts at i, 0 when none.
PidAt(s, i) ==
    LET kw == KeywordAt(s, i, {"进侩", "pid", "process"})
        p == SkipLabel(s, i + Len(kw), {"号", "i", "d"})
    IN IF kw # "" /\ DigitRunEnd(s, p) > p THEN p ELSE 0

PidOf(s) ==
    LET i == Leftmost({j \in 1..Len(s) : PidAt(s, j) # 0}) IN
    IF i = 0 THEN ""
    ELSE SubSeq(s, PidAt(s, i), DigitRunEnd(s, PidAt(s, i)) - 1)

\* _TOOL_RE =
\*   (<U+4F7F U+7528>|<U+7528>|run|execute|<U+542F U+52A8>|<U+6253 U+5F00>)\s*([a-zA-Z][a-zA-Z0-9_-]*)
\* IGNORECASE. The start of group 2 for the match that starts at i, 0 when none.
ToolAt(s, i) ==
    LET kw == KeywordAt(s, i, {"亖侙", "侙", "run", "execute", "人动", "仫仔"})
        p == SkipSpace(s, i + Len(kw))
    IN IF kw # "" /\ p <= Len(s) /\ Ch(s, p) \in LetterSet THEN p ELSE 0

\* m.group(2).lower() of _TOOL_RE ("" when there is no match)
ToolOf(s) ==
    LET i == Leftmost({j \in 1..Len(s) : ToolAt(s, j) # 0}) IN
    IF i = 0 THEN ""
    ELSE Lower(SubSeq(s, ToolAt(s, i), RunEnd(s, ToolAt(s, i), StemSet) - 1))

\* The keys of the dictionary extract_entities_from_query builds.
RegexKeys == {"filename", "port", "path", "ip", "domain", "container", "pid", "tool"}

\* The values entities["tool"] can take: the tool _TOOL_RE names when it is
\* a known one, else whichever known tool the loop over the set KNOWN_TOOLS
\* meets first among those the lowered query contains (the order of a set
\* of strings changes from run to run); {""} when no tool is found.
ToolChoices(query) ==
    IF ToolOf(query) \in KNOWN_TOOLS THEN {ToolOf(query)}
    ELSE LET found == {t \in KNOWN_TOOLS : Contains(Lower(query), t)}
         IN IF found = {} THEN {""} ELSE found

\* extract_entities_from_query with entities["tool"] = tool; "" stands for
\* a key that is missing or None.
regex_entities(query, tool) ==
    [k \in RegexKeys |->
        CASE k = "filename" -> FilenameOf(query)
          [] k = "port" -> safe_port(PortOf(query))
          [] k = "path" -> PathOf(query)
          [] k = "ip" -> IpOf(query)
          [] k = "domain" -> DomainOf(query)
          [] k = "container" -> ContainerOf(query)
          [] k = "pid" -> PidOf(query)
          [] k = "tool" -> tool]

\* The dictionaries extract_entities_from_query can return.
extract_entities_from_query(query) ==
    {regex_entities(query, tool) : tool \in ToolChoices(query)}

\* assess_complexity(query, intent), intent given by its domains (a list)
\* and its entities
assess_complexity(query, domains, entities) ==
    LET query_lower == Strip(Lower(query)) IN
    IF \E i \in 1..Len(TRIVIAL_PATTERNS) : query_lower \in TRIVIAL_PATTERNS[i]
    THEN TRIVIAL
    ELSE IF \E i \in 1..Len(DIAGNOSTIC_KEYWORDS) : Contains(query, DIAGNOSTIC_KEYWORDS[i])
    THEN COMPLEX
    ELSE IF Len(domains) >= 3 THEN COMPLEX
    ELSE IF Len(domains) = 2 THEN MODERATE
    ELSE IF \E k \in {"target", "path", "filename", "port", "service", "container"} :
                Get(entities, k) # ""
    THEN SIMPLE
    ELSE MODERATE

(***************************************************************************)
(* graph.py: JSON repair and the validation of the intent                  *)
(***************************************************************************)

FENCE == BACKTICK \o BACKTICK \o BACKTICK

\* The leftmost position >= i where text occurs in s (0 when nowhere).
IndexFrom(s, i, text) ==
    Leftmost({j \in i..(Len(s) - Len(text) + 1) : At(s, j, text)})

RECURSIVE RemoveWithSpace(_, _, _)
\* re.sub(lit + r"\s*", "", s), from position i
RemoveWithSpace(s, i, lit) ==
    LET j == IndexFrom(s, i, lit) IN
    IF j = 0 THEN From(s, i)
    ELSE SubSeq(s, i, j - 1) \o RemoveWithSpace(s, SkipSpace(s, j + Len(lit)), lit)

RECURSIVE LastIndexOf(_, _, _)
\* The last position <= i of s that holds c (0 when there is none).
LastIndexOf(s, c, i) ==
    IF i < 1 THEN 0 ELSE IF Ch(s, i) = c THEN i ELSE LastIndexOf(s, c, i - 1)

\* re.search(r"\{[\s\S]*\}", s): from the first "{" to the last "}"; s
\* itself when there is no match.
BraceSpan(s) ==
    LET a == IndexFrom(s, 1, "{")
        b == LastIndexOf(s, "}", Len(s))
    IN IF a # 0 /\ b > a THEN SubSeq(s, a, b) ELSE s

RECURSIVE ReplaceText(_, _, _, _)
\* s.replace(c, d), from position i
ReplaceText(s, i, c, d) ==
    LET j == IndexFrom(s, i, c) IN
    IF j = 0 THEN From(s, i)
    ELSE SubSeq(s, i, j - 1) \o d \o ReplaceText(s, j + Len(c), c, d)

RECURSIVE DropCommaBefore(_, _, _)
\* re.sub(r",\s*" + closer, closer, s), from position i
DropCommaBefore(s, i, closer) ==
    LET j == Leftmost({k \in i..Len(s) :
                          Ch(s, k) = "," /\ At(s, SkipSpace(s, k + 1), closer)})
    IN IF j = 0 THEN From(s, i)
       ELSE SubSeq(s, i, j - 1) \o closer
                \o DropCommaBefore(s, SkipSpace(s, j + 1) + 1, closer)

fix_json_string(s0) ==
    LET s1 == RemoveWithSpace(s0, 1, FENCE \o "json")
        s2 == RemoveWithSpace(s1, 1, FENCE)
        s3 == Strip(s2)
        s4 == BraceSpan(s3)
        s5 == ReplaceText(s4, 1, "'", "\"")
        s6 == DropCommaBefore(s5, 1, "}")
    IN DropCommaBefore(s6, 1, "]")

\* The JSON texts the model can read, each with its value: a dictionary is
\* written as a function from its keys to values tagged with their JSON
\* type, anything else as isdict = FALSE.
JsonTable ==
    << [text |-> "{\"domains\": [\"network\", \"process\"], \"entities\": {\"port\": \"8080\"}, \"complexity\": 2}",
        value |->
         [isdict |-> TRUE,
          dict |-> ("domains" :> [t |-> "list", v |-> <<"network", "process">>]
                   @@ "entities" :> [t |-> "dict", v |-> ("port" :> "8080")]
                   @@ "complexity" :> [t |-> "int", v |-> 2])]],
       [text |-> "{\"domains\": \"service\", \"entities\": {\"service\": \"nginx\"}, \"complexity\": 7}",
        value |->
         [isdict |-> TRUE,
          dict |-> ("domains" :> [t |-> "str", v |-> "service"]
                   @@ "entities" :> [t |-> "dict", v |-> ("service" :> "nginx")]
                   @@ "complexity" :> [t |-> "int", v |-> 7])]],
       [text |-> "{\"domains\": [\"rm\", \"file\"], \"entities\": {\"target\": \"/var/log\"}, \"complexity\": 1}",
        value |->
         [isdict |-> TRUE,
          dict |-> ("domains" :> [t |-> "list", v |-> <<"rm", "file">>]
                   @@ "entities" :> [t |-> "dict", v |-> ("target" :> "/var/log")]
                   @@ "complexity" :> [t |-> "int", v |-> 1])]],
       [text |-> "{\"domains\": [], \"complexity\": \"3\"}",
        value |->
         [isdict |-> TRUE,
          dict |-> ("domains" :> [t |-> "list", v |-> <<>>]
                   @@ "complexity" :> [t |-> "str", v |-> "3"])]],
       [text |-> "{\"domains\": [\"file\", \"log\", \"service\"], \"entities\": {\"target\": \"8080\"}, \"complexity\": 0}",
        value |->
         [isdict |-> TRUE,
          dict |-> ("domains" :> [t |-> "list", v |-> <<"file", "log", "service">>]
                   @@ "entities" :> [t |-> "dict", v |-> ("target" :> "8080")]
                   @@ "complexity" :> [t |-> "int", v |-> 0])]],
       [text |-> "{\"domains\": [\"process\"], \"entities\": {\"pid\": \"1; rm -rf /tmp/x\"}, \"complexity\": 2}",
        value |->
         [isdict |-> TRUE,
          dict |-> ("domains" :> [t |-> "list", v |-> <<"process">>]
                   @@ "entities" :> [t |-> "dict", v |-> ("pid" :> "1; rm -rf /tmp/x")]
                   @@ "complexity" :> [t |-> "int", v |-> 2])]],
       [text |-> "[1, 2]",
        value |->
         [isdict |-> FALSE, dict |-> EmptyDict]],
       [text |-> "{\"entities\": null}",
        value |->
         [isdict |-> TRUE,
          dict |-> ("entities" :> [t |-> "null", v |-> 0])]],
       [text |-> "{\"domains\": [\"storage\"]}",
        value |->
         [isdict |-> TRUE,
          dict |-> ("domains" :> [t |-> "list", v |-> <<"storage">>])]] >>

\* json.loads(s): <<value>>, or <<>> for JSONDecodeError
json_loads(s) ==
    LET hits == {i \in 1..Len(JsonTable) : JsonTable[i].text = Strip(s)} IN
    IF hits = {} THEN <<>> ELSE <<JsonTable[CHOOSE i \in hits : TRUE].value>>

\* default_intent of refine_node
default_intent ==
    [isdict |-> TRUE,
     dict |-> ("domains" :> [t |-> "list", v |-> <<"file">>]
              @@ "action" :> [t |-> "str", v |-> "unknown"]
              @@ "entities" :> [t |-> "dict", v |-> EmptyDict]
              @@ "complexity" :> [t |-> "int", v |-> 2])]

\* parse_json_safe(s, default): the value and the error ("" for None)
parse_json_safe(s, default) ==
    IF json_loads(s) # <<>> THEN [value |-> json_loads(s)[1], error |-> ""]
    ELSE IF json_loads(fix_json_string(s)) # <<>>
    THEN [value |-> json_loads(fix_json_string(s))[1], error |-> ""]
    ELSE [value |-> default, error |-> "JSONDecodeError"]

\* intent with intent[key] = [t |-> "str", v |-> text]
WithNote(intent, key, text) ==
    [isdict |-> TRUE,
     dict |-> (key :> [t |-> "str", v |-> text]) @@ intent.dict]

\* Python's truth value of a tagged JSON value
Truthy(j) ==
    CASE j.t = "null" -> FALSE
      [] j.t = "int" -> j.v # 0
      [] j.t = "str" -> j.v # ""
      [] j.t = "list" -> j.v # <<>>
      [] j.t = "dict" -> DOMAIN j.v # {}

\* [d for d in seq if d in SUPPORTED_DOMAINS]
SupportedOnly(seq) ==
    LET Supported(d) == d \in SUPPORTED_DOMAINS IN SelectSeq(seq, Supported)

\* Domains taken as the LLM gave them, unknown tags included.
UnfilteredDomains(dict) ==
    LET given == IF "domains" \in DOMAIN dict /\ Truthy(dict["domains"])
                 THEN dict["domains"] ELSE [t |-> "list", v |-> <<"file">>]
    IN IF given.t \notin {"str", "list"}
       THEN [raised |-> "TypeError", domains |-> <<>>]
       ELSE [raised |-> "", domains |-> IF given.t = "str" THEN <<given.v>> ELSE given.v]

\* refine_node, lines 365-368: intent["domains"] after the corrections; the
\* name of the exception when one is raised.
FixDomains(dict) ==
    LET given == IF "domains" \in DOMAIN dict /\ Truthy(dict["domains"])
                 THEN dict["domains"] ELSE [t |-> "list", v |-> <<"file">>]
    IN IF given.t \notin {"str", "list"}
       THEN [raised |-> "TypeError", domains |-> <<>>]
       ELSE LET listed == IF given.t = "str" THEN <<given.v>> ELSE given.v
                kept == SupportedOnly(listed)
            IN [raised |-> "", domains |-> IF kept = <<>> THEN <<"file">> ELSE kept]

\* refine_node, lines 370-380: intent["entities"] after the values of
\* regex_entities filled the keys that hold nothing and target was copied
\* to path or port.
MergeEntities(given, regex) ==
    LET filled == {k \in RegexKeys : regex[k] # "" /\ Get(given, k) = ""}
        merged == [k \in DOMAIN given \cup filled |->
                      IF k \in filled THEN regex[k] ELSE given[k]]
        target == Get(merged, "target")
        to_path == target # "" /\ StartsWith(target, "/") /\ Get(merged, "path") = ""
        with_path == IF to_path THEN ("path" :> target) @@ merged ELSE merged
        to_port == /\ target # ""
                   /\ \A i \in 1..Len(target) : IsDigit(Ch(target, i))
                   /\ Get(with_path, "port") = ""
    IN IF to_port THEN ("port" :> target) @@ with_path ELSE with_path

\* A final complexity that is the LLM's value alone.
LlmValue(a, b) == a

\* Python's max(a, b)
Max(a, b) == IF b > a THEN b ELSE a

\* refine_node, lines 364-390, on the parsed intent, the query and the
\* dictionary of extract_entities_from_query: the exception raised ("" for
\* none), the intent and the complexity of the node's update.
ValidatedIntent(parsed, query, regex) ==
    LET dict == parsed.dict
        fixed == FixDomains(dict)
        failure(name) == [raised |-> name, intent |-> EmptyDict, complexity |-> 0]
    IN IF ~parsed.isdict THEN failure("AttributeError")
       ELSE IF fixed.raised # "" THEN failure(fixed.raised)
       ELSE IF "entities" \in DOMAIN dict /\ dict["entities"].t # "dict"
       THEN failure("AttributeError")
       ELSE IF "complexity" \in DOMAIN dict /\ dict["complexity"].t # "int"
       THEN failure("TypeError")
       ELSE LET ents == MergeEntities(IF "entities" \in DOMAIN dict
                                      THEN dict["entities"].v ELSE EmptyDict, regex)
                llm_complexity == IF "complexity" \in DOMAIN dict
                                  THEN dict["complexity"].v ELSE 2
                assessed_complexity == assess_complexity(query, fixed.domains, ents)
                intent == [k \in DOMAIN dict \cup {"domains", "entities"} |->
                              CASE k = "domains" -> fixed.domains
                                [] k = "entities" -> ents
                                [] OTHER -> dict[k].v]
            IN [raised |-> "", intent |-> intent,
                complexity |-> Max(llm_complexity, assessed_complexity)]

(***************************************************************************)
(* State                                                                   *)
(***************************************************************************)

VARIABLES
    \* a caller of the gate: the fragment it composes, piece by piece, and
    \* what validate_command_batch returned for it
    family, fragment, npieces, results,
    \* a caller of the planner: its arguments and the list it got back
    domains, entities, complexity, planned,
    \* one run of the compiled graph: the node to run next, the AgentState,
    \* the exception that left the graph, the locals of the running node
    \* (attempt and backoff of _invoke_llm_with_retry; scout_cmds,
    \* exec_results and failed_count of scout_node) and the commands handed to
    \* subprocess.run
    pc, state, raised, attempt, backoff, scout_cmds, exec_results,
    failed_count, spawned, faults

gate_vars == <<family, fragment, npieces, results>>
plan_vars == <<domains, entities, complexity, planned>>
graph_vars ==
    <<pc, state, raised, attempt, backoff, scout_cmds, exec_results,
      failed_count, spawned, faults>>
vars == <<gate_vars, plan_vars, graph_vars>>

\* No fragment is being composed.
GateIdle == family = 0 /\ fragment = "" /\ npieces = 0 /\ results = <<>>

\* No plan is being asked for.
PlanIdle ==
    domains = <<>> /\ entities = EmptyDict /\ complexity = 0 /\ planned = <<>>

\* No graph is running.
GraphIdle ==
    /\ pc = "idle" /\ state = EmptyDict /\ raised = ""
    /\ attempt = 0 /\ backoff = <<>>
    /\ scout_cmds = <<>> /\ exec_results = <<>> /\ failed_count = 0
    /\ spawned = <<>> /\ faults = 0

(***************************************************************************)
(* The gate and its callers                                                *)
(***************************************************************************)

\* The longest fragment a caller composes, in pieces.
MaxPieces == 3

\* The pieces a caller composes fragments from, by family of fragments.
Pieces ==
    << {"ls", ">", ">|", ">>", "2>&1", "/tmp/x"},
       {"cat", "<", "<<", "<(ls)", ">(cat)", "\r"},
       {"ls", BACKTICK \o "id" \o BACKTICK, "$(id)", "${a:-b}", "\\x41", "\\u0041"},
       {"ls", "||", ";", "&", "&&", "\n"},
       {"rm", "sudo", "/bin/rm", "RM", "ls", "|"},
       {"systemctl", "start", "systemctl start", "ip link set", "sudo", "mount"},
       {"sed", "-n 1p", "-i", "awk", "'{print $1}'", "|"},
       {"curl", "-s", "-o", "sleep", "5", "60"},
       {"ls", "|", "tee", "/usr/bin/tee", "/dev/null", "/tmp/x", "-a"},
       {"xargs", "parallel", "|", "&&", "ls", "sudo"},
       {"service", "ifconfig", "eth0", "stop", "down"} >>

\* One entry of the list validate_command_batch returns, for cmd: the
\* possible values of the dictionary (get_safety_reason is not a function of
\* cmd alone).
ValidationResults(cmd) ==
    LET is_safe == is_safe_scout_cmd(cmd) IN
    {[command |-> cmd, safe |-> is_safe, reason |-> r] :
        r \in IF is_safe THEN {None} ELSE get_safety_reason(cmd)}

RECURSIVE validate_command_batch(_)
\* The lists validate_command_batch(commands) can return.
validate_command_batch(commands) ==
    IF commands = <<>> THEN {<<>>}
    ELSE {<<r>> \o rest : r \in ValidationResults(Head(commands)),
                          rest \in validate_command_batch(Tail(commands))}

\* The caller adds a piece to its fragment (a space between the pieces).
TypePiece(p) ==
    /\ npieces < MaxPieces
    /\ fragment' = IF npieces = 0 THEN p ELSE fragment \o " " \o p
    /\ npieces' = npieces + 1
    /\ results' = <<>>
    /\ UNCHANGED <<family, plan_vars, graph_vars>>

\* validate_command_batch([fragment])
Validate ==
    /\ results = <<>>
    /\ results' \in validate_command_batch(<<fragment>>)
    /\ UNCHANGED <<family, fragment, npieces, plan_vars, graph_vars>>

InitGate ==
    /\ family \in 1..Len(Pieces)
    /\ fragment = "" /\ npieces = 0 /\ results = <<>>
    /\ PlanIdle /\ GraphIdle

NextGate ==
    \/ \E p \in Pieces[family] : TypePiece(p)
    \/ Validate

SpecGate == InitGate /\ [][NextGate]_vars

(***************************************************************************)
(* The planner and its callers                                             *)
(***************************************************************************)

\* The longest list of domains a caller passes.
MaxDomains == 3

\* The entities a caller passes: none, a port, the names of a host that
\* runs nginx, values that carry shell syntax, and values that fail the
\* rules of safe_name, safe_port and safe_path.
EntityChoices ==
    << EmptyDict,
       [k \in {"port"} |-> "8080"],
       [k \in {"path", "service", "container", "user", "target"} |->
           CASE k = "path" -> "/var/log"
             [] k = "service" -> "nginx"
             [] k = "container" -> "web"
             [] k = "user" -> "root"
             [] k = "target" -> "nginx"],
       [k \in {"target", "filename", "pid"} |->
           CASE k = "target" -> "x; rm -rf /"
             [] k = "filename" -> "a b"
             [] k = "pid" -> "1; rm -rf /tmp/x"],
       [k \in {"service", "port", "path"} |->
           CASE k = "service" -> "nginx; id"
             [] k = "port" -> "99999"
             [] k = "path" -> "/tmp/a b"] >>

\* The caller adds a tag to its list of domains; "rm" is no domain.
AddDomain(d) ==
    /\ complexity = 0
    /\ Len(domains) < MaxDomains
    /\ domains' = Append(domains, d)
    /\ UNCHANGED <<entities, complexity, planned, gate_vars, graph_vars>>

\* planned = get_scout_commands(domains, entities, query, TaskComplexity(c))
Plan(c) ==
    /\ complexity = 0
    /\ complexity' = c
    /\ planned' = get_scout_commands(domains, entities, c)
    /\ UNCHANGED <<domains, entities, gate_vars, graph_vars>>

InitPlan ==
    /\ domains = <<>>
    /\ \E e \in 1..Len(EntityChoices) : entities = EntityChoices[e]
    /\ complexity = 0 /\ planned = <<>>
    /\ GateIdle /\ GraphIdle

NextPlan ==
    \/ \E d \in SUPPORTED_DOMAINS \cup {"rm"} : AddDomain(d)
    \/ \E c \in TRIVIAL..COMPLEX : Plan(c)

SpecPlan == InitPlan /\ [][NextPlan]_vars

(***************************************************************************)
(* graph.py: the nodes of the graph                                        *)
(***************************************************************************)

\* ShellGraph.max_retries
max_retries == 3

\* The probes of one run that may end otherwise than with exit status 0.
MaxFaults == 1

\* The queries: " PWD ", "uname",
\* "端口 8080 被谁占用", "为什么 nginx 起不来", "check /var/log/syslog"
Queries ==
    << " PWD ",
       "uname",
       "端口 8080 被侻亲侙",
       "予什亍 nginx 係亃侇",
       "check /var/log/syslog" >>

\* The texts the LLM answers the intent prompt with.
IntentOutputs ==
    << "{\"domains\": [\"network\", \"process\"], \"entities\": {\"port\": \"8080\"}, \"complexity\": 2}",
       ("" \o BACKTICK \o "" \o BACKTICK \o "" \o BACKTICK \o "json\n{'domains': 'service', 'entities': {'service': 'nginx',}, 'complexity': 7,}\n" \o BACKTICK \o "" \o BACKTICK \o "" \o BACKTICK \o ""),
       "Here is the intent: {\"domains\": [\"rm\", \"file\"], \"entities\": {\"target\": \"/var/log\"}, \"complexity\": 1}",
       "Sorry, I cannot help.",
       "{\"domains\": [], \"complexity\": \"3\"}",
       "{\"domains\": [\"file\", \"log\", \"service\"], \"entities\": {\"target\": \"8080\"}, \"complexity\": 0}",
       "{\"domains\": [\"process\"], \"entities\": {\"pid\": \"1; rm -rf /tmp/x\"}, \"complexity\": 2}",
       "[1, 2]",
       "{\"entities\": null}",
       "{\"domains\": [\"storage\"]}" >>

\* The texts the LLM answers the generation prompt with.
CommandOutputs ==
    << "ls -la /var/log",
       ("" \o BACKTICK \o "" \o BACKTICK \o "" \o BACKTICK \o "bash\nss -tlnp\n" \o BACKTICK \o "" \o BACKTICK \o "" \o BACKTICK \o ""),
       "# list files\nls\npwd",
       "echo a\necho b",
       "# a\n# b" >>

\* The examples of retrieve_node: the knowledge base is not ready or finds
\* nothing.
ExampleChoices == {"No examples found."}

\* state.get(key, default)
StateGet(key, default) == IF key \in DOMAIN state THEN state[key] ELSE default

\* The merge of a node's update into the state: the keys of the update
\* replace those of the state.
Merged(update) == update @@ state

\* Logs that hold the new entry alone.
OnlyEntry(step_name) == <<step_name>>

\* _log(state, step_name, content): the logs of the state with one more
\* entry; an entry is written as its step name.
_log(step_name) == Append(StateGet("logs", <<>>), step_name)

\* should_skip_scout(state)
should_skip_scout(st) ==
    IF "complexity" \in DOMAIN st /\ st["complexity"] = TRIVIAL
    THEN "generate" ELSE "scout"

RECURSIVE SplitOn(_, _, _)
\* s[i:].split(sep)
SplitOn(s, i, sep) ==
    LET j == IndexFrom(s, i, sep) IN
    IF j = 0 THEN <<From(s, i)>>
    ELSE <<SubSeq(s, i, j - 1)>> \o SplitOn(s, j + Len(sep), sep)

\* generate_node, lines 486-493: the command taken from the LLM's text
CleanCommand(result_str) ==
    LET c0 == Strip(result_str)
        c1 == IF StartsWith(c0, FENCE \o "bash")
              THEN From(c0, SkipSpace(c0, Len(FENCE \o "bash") + 1)) ELSE c0
        c2 == IF StartsWith(c1, FENCE)
              THEN From(c1, SkipSpace(c1, Len(FENCE) + 1)) ELSE c1
        c3 == IF Len(c2) >= Len(FENCE) /\ At(c2, Len(c2) - Len(FENCE) + 1, FENCE)
              THEN RStrip(SubSeq(c2, 1, Len(c2) - Len(FENCE))) ELSE c2
        command == Strip(c3)
        Kept(l) == Strip(l) # "" /\ ~StartsWith(l, "#")
        lines == SelectSeq(SplitOn(command, 1, "\n"), Kept)
    IN IF Contains(command, "\n") /\ ~StartsWith(command, "echo") /\ lines # <<>>
       THEN Strip(lines[1]) ELSE command

\* The locals of a node are gone when the node returns.
NoLocals ==
    /\ attempt' = 0 /\ backoff' = <<>>
    /\ scout_cmds' = <<>> /\ exec_results' = <<>> /\ failed_count' = 0

\* refine_node, lines 330-342: a query of TRIVIAL_COMMANDS is answered from
\* the table.
RefineTrivial ==
    LET query_normalized == Lower(Strip(state["query"])) IN
    /\ pc = "refine"
    /\ query_normalized \in DOMAIN TRIVIAL_COMMANDS
    /\ state' = Merged([intent |-> [domains |-> <<"file">>,
                                    action |-> "simple command",
                                    entities |-> EmptyDict],
                        complexity |-> TRIVIAL,
                        command |-> TRIVIAL_COMMANDS[query_normalized],
                        logs |-> _log("REFINE_NODE")])
    /\ pc' = "retrieve"
    /\ NoLocals
    /\ UNCHANGED <<raised, spawned, faults, gate_vars, plan_vars>>

\* refine_node, lines 344-350: any other query goes to the LLM.
RefineAsksLlm ==
    /\ pc = "refine"
    /\ Lower(Strip(state["query"])) \notin DOMAIN TRIVIAL_COMMANDS
    /\ pc' = "refine_llm"
    /\ attempt' = 0 /\ backoff' = <<>>
    /\ UNCHANGED <<state, raised, scout_cmds, exec_results, failed_count,
                   spawned, faults, gate_vars, plan_vars>>

\* A retry whose sleep does not grow with the attempt: 0.5 seconds each time.
LlmAttemptFailsFlat ==
    /\ pc \in {"refine_llm", "generate_llm"}
    /\ attempt < max_retries - 1
    /\ backoff' = Append(backoff, 500)
    /\ attempt' = attempt + 1
    /\ UNCHANGED <<pc, state, raised, scout_cmds, exec_results, failed_count,
                   spawned, faults, gate_vars, plan_vars>>

\* _invoke_llm_with_retry, lines 314-317: an attempt that is not the last
\* fails; the call sleeps 0.5 * (attempt + 1) seconds (here in milliseconds)
\* and tries again.
LlmAttemptFails ==
    /\ pc \in {"refine_llm", "generate_llm"}
    /\ attempt < max_retries - 1
    /\ backoff' = Append(backoff, 500 * (attempt + 1))
    /\ attempt' = attempt + 1
    /\ UNCHANGED <<pc, state, raised, scout_cmds, exec_results, failed_count,
                   spawned, faults, gate_vars, plan_vars>>

\* refine_node, lines 364-390, from the intent that lines 348-362 left and
\* the logs they wrote.
RefineFinish(parsed, logs) ==
    \E regex \in extract_entities_from_query(state["query"]) :
        LET v == ValidatedIntent(parsed, state["query"], regex) IN
        IF v.raised # ""
        THEN /\ pc' = "raised"
             /\ raised' = v.raised
             /\ UNCHANGED state
        ELSE /\ pc' = "retrieve"
             /\ state' = Merged([intent |-> v.intent,
                                 complexity |-> v.complexity,
                                 logs |-> logs])
             /\ UNCHANGED raised

\* refine_node, lines 350-358: the LLM answers with result_str.
RefineLlmReturns(result_str) ==
    LET p == parse_json_safe(result_str, default_intent)
        parsed == IF p.error # ""
                  THEN WithNote(default_intent, "_parse_error", p.error)
                  ELSE p.value
    IN /\ pc = "refine_llm"
       /\ RefineFinish(parsed, _log("REFINE_NODE (Intent Parsing)"))
       /\ NoLocals
       /\ UNCHANGED <<spawned, faults, gate_vars, plan_vars>>

\* refine_node, lines 359-362: the last attempt fails too and
\* _invoke_llm_with_retry raises its error.
RefineLlmGivesUp ==
    /\ pc = "refine_llm"
    /\ attempt = max_retries - 1
    /\ RefineFinish(WithNote(default_intent, "_llm_error", "LLMError"),
                    _log("REFINE_NODE_ERROR"))
    /\ NoLocals
    /\ UNCHANGED <<spawned, faults, gate_vars, plan_vars>>

\* retrieve_node, then the conditional edge should_skip_scout
Retrieve(examples) ==
    /\ pc = "retrieve"
    /\ state' = Merged([context |-> "OS: Linux, Shell: /bin/bash, CWD: /root",
                        examples |-> examples,
                        logs |-> _log("RETRIEVE_NODE (RAG)")])
    /\ pc' = should_skip_scout(state')
    /\ UNCHANGED <<raised, attempt, backoff, scout_cmds, exec_results,
                   failed_count, spawned, faults, gate_vars, plan_vars>>

\* scout_node, lines 412-432: the plan. TaskComplexity(n) raises ValueError
\* for an n that is no member of the enumeration.
ScoutPlans ==
    LET intent == state["intent"]
        level == StateGet("complexity", MODERATE)
        cmds == get_scout_commands(intent["domains"], intent["entities"], level)
    IN /\ pc = "scout"
       /\ IF level = TRIVIAL
          THEN /\ state' = Merged([scout_info |-> "[TRIVIAL TASK - No scout needed]",
                                   logs |-> StateGet("logs", <<>>)])
               /\ pc' = "generate"
               /\ UNCHANGED <<raised, scout_cmds>>
          ELSE IF level \notin TRIVIAL..COMPLEX
          THEN /\ pc' = "raised"
               /\ raised' = "ValueError"
               /\ UNCHANGED <<state, scout_cmds>>
          ELSE IF cmds = <<>>
          THEN /\ state' = Merged([scout_info |-> "[No scout commands generated]",
                                   logs |-> _log("SCOUT_PLANNING")])
               /\ pc' = "generate"
               /\ UNCHANGED <<raised, scout_cmds>>
          ELSE /\ scout_cmds' = cmds
               /\ pc' = "scout_loop"
               /\ UNCHANGED <<state, raised>>
       /\ exec_results' = <<>>
       /\ failed_count' = 0
       /\ UNCHANGED <<attempt, backoff, spawned, faults, gate_vars, plan_vars>>

\* str(reason) in the f-string of line 440
ReasonText(reason) == IF reason = None THEN "None" ELSE reason

\* What subprocess.run can do with a probe: return with exit status 0,
\* return with another status, raise TimeoutExpired, raise another
\* Exception, or be interrupted from the keyboard.
Outcomes == {"ok", "nonzero", "timeout", "error", "interrupt"}

\* Lines 444-452 with a handler of TimeoutExpired that records rc 1, the
\* status of any other exception, instead of 124.
RunResultNoTimeoutCase(cmd, outcome) ==
    CASE outcome = "ok" ->
            [cmd |-> cmd, stdout |-> ProbeOutput, stderr |-> "", rc |-> 0]
      [] outcome = "nonzero" ->
            [cmd |-> cmd, stdout |-> "", stderr |-> "No such file or directory", rc |-> 2]
      [] outcome = "timeout" ->
            [cmd |-> cmd, stdout |-> "", stderr |-> "TIMEOUT", rc |-> 1]
      [] outcome = "error" ->
            [cmd |-> cmd, stdout |-> "", stderr |-> "OSError", rc |-> 1]

\* The result of lines 444-452 for cmd and an outcome that is no interrupt.
RunResult(cmd, outcome) ==
    CASE outcome = "ok" ->
            [cmd |-> cmd, stdout |-> ProbeOutput, stderr |-> "", rc |-> 0]
      [] outcome = "nonzero" ->
            [cmd |-> cmd, stdout |-> "", stderr |-> "No such file or directory", rc |-> 2]
      [] outcome = "timeout" ->
            [cmd |-> cmd, stdout |-> "", stderr |-> "TIMEOUT", rc |-> 124]
      [] outcome = "error" ->
            [cmd |-> cmd, stdout |-> "", stderr |-> "OSError", rc |-> 1]

\* A loop that hands every command to subprocess.run, whatever the gate
\* says of it.
ScoutRunsUnchecked ==
    LET cmd == scout_cmds[Len(exec_results) + 1] IN
    /\ pc = "scout_loop"
    /\ Len(exec_results) < Len(scout_cmds)
    /\ spawned' = Append(spawned, cmd)
    /\ exec_results' = Append(exec_results, RunResult(cmd, "ok"))
    /\ UNCHANGED <<pc, state, raised, attempt, backoff, scout_cmds, failed_count,
                   faults, gate_vars, plan_vars>>

\* scout_node, lines 437-452: one turn of the loop. A command the gate
\* refuses gets rc 126 and is not run; the others go to subprocess.run.
\* KeyboardInterrupt is no Exception: it leaves the node and the graph.
ScoutRunsProbe ==
    LET cmd == scout_cmds[Len(exec_results) + 1] IN
    /\ pc = "scout_loop"
    /\ Len(exec_results) < Len(scout_cmds)
    /\ IF ~is_safe_scout_cmd(cmd)
       THEN /\ \E reason \in get_safety_reason(cmd) :
                 exec_results' =
                     Append(exec_results,
                            [cmd |-> cmd, stdout |-> "",
                             stderr |-> "BLOCKED: " \o ReasonText(reason),
                             rc |-> 126])
            /\ UNCHANGED <<pc, raised, failed_count, spawned, faults>>
       ELSE /\ spawned' = Append(spawned, cmd)
            /\ \E outcome \in Outcomes :
                 /\ outcome # "ok" => faults < MaxFaults
                 /\ faults' = IF outcome = "ok" THEN faults ELSE faults + 1
                 /\ IF outcome = "interrupt"
                    THEN /\ pc' = "raised"
                         /\ raised' = "KeyboardInterrupt"
                         /\ UNCHANGED <<exec_results, failed_count>>
                    ELSE /\ exec_results' = Append(exec_results, RunResult(cmd, outcome))
                         /\ failed_count' =
                                IF outcome = "ok" THEN failed_count ELSE failed_count + 1
                         /\ UNCHANGED <<pc, raised>>
    /\ UNCHANGED <<state, attempt, backoff, scout_cmds, gate_vars, plan_vars>>

\* scout_node, lines 454-461: the loop is over.
ScoutFinish ==
    LET warning == IF failed_count * 10 > Len(scout_cmds) * 7
                   THEN "[WARNING] Most scout commands failed." ELSE ""
        facts == extract_facts(exec_results)
    IN /\ pc = "scout_loop"
       /\ Len(exec_results) = Len(scout_cmds)
       /\ state' = Merged([scout_info |-> IF warning # ""
                                          THEN warning \o "\n\n" \o facts ELSE facts,
                           logs |-> _log("SCOUT_RESULTS")])
       /\ pc' = "generate"
       /\ NoLocals
       /\ UNCHANGED <<raised, spawned, faults, gate_vars, plan_vars>>

\* generate_node without the test of line 467: the LLM is asked whatever
\* command the state holds.
GenerateIgnoresCommand ==
    /\ pc = "generate"
    /\ StateGet("command", "") # ""
    /\ pc' = "generate_llm"
    /\ attempt' = 0 /\ backoff' = <<>>
    /\ UNCHANGED <<state, raised, scout_cmds, exec_results, failed_count,
                   spawned, faults, gate_vars, plan_vars>>

\* generate_node, line 467: a command that refine set is kept.
GenerateKeeps ==
    /\ pc = "generate"
    /\ StateGet("command", "") # ""
    /\ pc' = "end"
    /\ UNCHANGED <<state, raised, attempt, backoff, scout_cmds, exec_results,
                   failed_count, spawned, faults, gate_vars, plan_vars>>

\* generate_node, lines 469-481: otherwise the LLM is asked.
GenerateAsksLlm ==
    /\ pc = "generate"
    /\ StateGet("command", "") = ""
    /\ pc' = "generate_llm"
    /\ attempt' = 0 /\ backoff' = <<>>
    /\ UNCHANGED <<state, raised, scout_cmds, exec_results, failed_count,
                   spawned, faults, gate_vars, plan_vars>>

\* generate_node, lines 481-495: the LLM answers with result_str.
GenerateLlmReturns(result_str) ==
    /\ pc = "generate_llm"
    /\ state' = Merged([command |-> CleanCommand(result_str),
                        logs |-> _log("GENERATE_NODE (Final Thinking)")])
    /\ pc' = "end"
    /\ NoLocals
    /\ UNCHANGED <<raised, spawned, faults, gate_vars, plan_vars>>

\* generate_node, lines 497-504: the last attempt fails too. The command is
\* echo "命令生成失败: <error>".
GenerateLlmGivesUp ==
    /\ pc = "generate_llm"
    /\ attempt = max_retries - 1
    /\ state' = Merged([command |-> "echo \"亻令侘仦仉侽: LLMError\"",
                        error |-> "LLMError",
                        logs |-> _log("GENERATE_ERROR")])
    /\ pc' = "end"
    /\ NoLocals
    /\ UNCHANGED <<raised, spawned, faults, gate_vars, plan_vars>>

\* graph.invoke({"query": query})
Init ==
    /\ pc = "refine"
    /\ \E i \in 1..Len(Queries) : state = [query |-> Queries[i]]
    /\ raised = ""
    /\ attempt = 0 /\ backoff = <<>>
    /\ scout_cmds = <<>> /\ exec_results = <<>> /\ failed_count = 0
    /\ spawned = <<>> /\ faults = 0
    /\ GateIdle /\ PlanIdle

Next ==
    \/ RefineTrivial
    \/ RefineAsksLlm
    \/ LlmAttemptFails
    \/ \E i \in 1..Len(IntentOutputs) : RefineLlmReturns(IntentOutputs[i])
    \/ RefineLlmGivesUp
    \/ \E examples \in ExampleChoices : Retrieve(examples)
    \/ ScoutPlans
    \/ ScoutRunsProbe
    \/ ScoutFinish
    \/ GenerateKeeps
    \/ GenerateAsksLlm
    \/ \E i \in 1..Len(CommandOutputs) : GenerateLlmReturns(CommandOutputs[i])
    \/ GenerateLlmGivesUp

Spec == Init /\ [][Next]_vars

\* Queries that name tools of KNOWN_TOOLS, for refine_node alone.
ToolQueries ==
    << "df",
       "top",
       "install htop",
       "python3 version",
       "pip3 list",
       "run python3 a.py",
       "psql fails on port 5432" >>

\* refine_node is called on a query.
InitRefine ==
    /\ pc = "refine"
    /\ \E i \in 1..Len(ToolQueries) : state = [query |-> ToolQueries[i]]
    /\ raised = ""
    /\ attempt = 0 /\ backoff = <<>>
    /\ scout_cmds = <<>> /\ exec_results = <<>> /\ failed_count = 0
    /\ spawned = <<>> /\ faults = 0
    /\ GateIdle /\ PlanIdle

NextRefine ==
    \/ RefineTrivial
    \/ RefineAsksLlm
    \/ LlmAttemptFails
    \/ \E i \in 1..Len(IntentOutputs) : RefineLlmReturns(IntentOutputs[i])
    \/ RefineLlmGivesUp

SpecRefine == InitRefine /\ [][NextRefine]_vars

\* The longest text handed to fix_json_string, in characters.
MaxText == 5

\* The characters of those texts: the ones fix_json_string looks for.
RepairChars == {"{", "}", ",", " ", "'", BACKTICK}

\* A text is being written, as an LLM writes its answer.
InitRepair ==
    /\ pc = "writing"
    /\ state = [result_str |-> ""]
    /\ raised = ""
    /\ attempt = 0 /\ backoff = <<>>
    /\ scout_cmds = <<>> /\ exec_results = <<>> /\ failed_count = 0
    /\ spawned = <<>> /\ faults = 0
    /\ GateIdle /\ PlanIdle

\* One more character of the text.
WriteChar(c) ==
    /\ pc = "writing"
    /\ Len(state["result_str"]) < MaxText
    /\ state' = [result_str |-> state["result_str"] \o c]
    /\ UNCHANGED <<pc, raised, attempt, backoff, scout_cmds, exec_results,
                   failed_count, spawned, faults, gate_vars, plan_vars>>

\* parse_json_safe, line 195: fixed = fix_json_string(s)
FixJson ==
    /\ pc = "writing"
    /\ state' = [result_str |-> state["result_str"],
                 fixed |-> fix_json_string(state["result_str"])]
    /\ pc' = "fixed"
    /\ UNCHANGED <<raised, attempt, backoff, scout_cmds, exec_results,
                   failed_count, spawned, faults, gate_vars, plan_vars>>

NextRepair ==
    \/ \E c \in RepairChars : WriteChar(c)
    \/ FixJson

SpecRepair == InitRepair /\ [][NextRepair]_vars

(***************************************************************************)
(* Properties of the gate                                                  *)
(***************************************************************************)

\* \xHH (n = 2, letter "x") or \uHHHH (n = 4, letter "u") somewhere in s
EscapeIn(s, letter, n) ==
    \E i \in 1..Len(s) :
        /\ At(s, i, "\\" \o letter)
        /\ i + 1 + n <= Len(s)
        /\ \A k \in (i + 2)..(i + 1 + n) : Ch(s, k) \in HexSet

\* An "&" with no "&" beside it
SingleAmpersandIn(s) ==
    \E i \in 1..Len(s) :
        /\ Ch(s, i) = "&"
        /\ (i = 1 \/ Ch(s, i - 1) # "&")
        /\ (i = Len(s) \/ Ch(s, i + 1) # "&")

\* The Tier-1 patterns that are a plain piece of text or an escape.
Tier1Text(s) ==
    \/ \E t \in {BACKTICK, "$(", "<(", ">(", ">>", "||", ";", "\n", "\r"} : Contains(s, t)
    \/ SingleAmpersandIn(s)
    \/ EscapeIn(s, "x", 2) \/ EscapeIn(s, "u", 4)

\* ">" not followed by "|" or "&", "<" not followed by "<": the end of the
\* fragment counts as "not followed".
Tier1AsListed(s) ==
    \/ Tier1Text(s)
    \/ \E i \in 1..Len(s) :
          Ch(s, i) = ">" /\ ~(i < Len(s) /\ Ch(s, i + 1) \in {"|", "&"})
    \/ \E i \in 1..Len(s) :
          Ch(s, i) = "<" /\ ~(i < Len(s) /\ Ch(s, i + 1) = "<")

\* ">" followed by a character other than "|" and "&", "<" followed by a
\* character other than "<"
Tier1Followed(s) ==
    \/ Tier1Text(s)
    \/ \E i \in 1..(Len(s) - 1) :
          Ch(s, i) = ">" /\ Ch(s, i + 1) \notin {"|", "&"}
    \/ \E i \in 1..(Len(s) - 1) :
          Ch(s, i) = "<" /\ Ch(s, i + 1) # "<"

SubFragments(cmd) == SplitPipeline(Strip(cmd))

\* The fragment without a leading sudo.
WithoutSudo(cmd) ==
    LET c == Strip(cmd) IN IF StartsWith(c, "sudo ") THEN Strip(From(c, 6)) ELSE c

\* The base token of some sub-fragment is a deny-list command.
DenyBaseIn(cmd) ==
    \E k \in 1..Len(SubFragments(cmd)) :
        Lower(_get_base_command(SubFragments(cmd)[k])) \in
            {d \in DANGEROUS_COMMANDS : ~Contains(d, " ")}

\* The fragment begins with a multi-word deny prefix.
DenyPrefixAt(cmd) ==
    LET lowered == Lower(WithoutSudo(cmd)) IN
    \E d \in DANGEROUS_COMMANDS : Contains(d, " ") /\ StartsWith(lowered, d)

RestrictedAndPassing(cmd) ==
    LET c == Strip(cmd)
        base == _get_base_command(c)
    IN /\ c # ""
       /\ Len(SubFragments(cmd)) = 1
       /\ _check_dangerous_patterns(c)
       /\ _check_dangerous_commands(c)
       /\ base \in RESTRICTED_COMMANDS
       /\ _check_restricted_command(c, base)

\* C5, as stated: a fragment with no Tier-1 pattern and no deny-list match
\* whose base token is restricted is accepted when it passes the rule of
\* that command. Violated: "sed -n 1p" is refused.
C5_RestrictedAccepted ==
    \A i \in DOMAIN results :
        RestrictedAndPassing(results[i].command) => results[i].safe

\* C6, as stated: the verdict and the reason agree, an unsafe fragment has
\* a reason and a safe one has none. Violated: "xargs ls" is unsafe and its
\* reason is None.
C6_VerdictAndReasonAgree ==
    \A i \in DOMAIN results :
        results[i].safe <=> results[i].reason = None

\* The base token of the first non-empty sub-fragment ("" when there is none).
FirstCommandBase(cmd) ==
    LET parts == SubFragments(cmd)
        nonempty == {k \in 1..Len(parts) : Strip(parts[k]) # ""}
    IN IF nonempty = {} THEN ""
       ELSE _get_base_command(parts[CHOOSE k \in nonempty : \A j \in nonempty : k <= j])

\* C7, as stated: a fragment whose first command has base xargs or parallel
\* is unsafe. Violated: "| xargs ls" is accepted.
C7_ComboFirstRejected ==
    \A i \in DOMAIN results :
        FirstCommandBase(results[i].command) \in {"xargs", "parallel"}
            => ~results[i].safe

\* The sub-fragment runs tee (sudo and the path prefix stripped) and the
\* word after the command is neither a flag nor one of the allowed targets.
TeeToFile(sub) ==
    LET w == Words(WithoutSudo(sub)) IN
    /\ _get_base_command(sub) = "tee"
    /\ Len(w) >= 2
    /\ ~StartsWith(w[2], "-")
    /\ w[2] \notin TeeAllowedTargets

\* C25: a fragment with a tee sub-fragment whose first argument is no flag
\* and none of /dev/null, /dev/stdout, /dev/stderr, - is unsafe.
C25_TeeTargetChecked ==
    \A i \in DOMAIN results :
        (\E k \in 1..Len(SubFragments(results[i].command)) :
            TeeToFile(SubFragments(results[i].command)[k]))
          => ~results[i].safe

\* Some sub-fragment begins with a multi-word deny prefix.
DenyPrefixIn(cmd) ==
    \E k \in 1..Len(SubFragments(cmd)), d \in DANGEROUS_COMMANDS :
        /\ Contains(d, " ")
        /\ StartsWith(Lower(WithoutSudo(SubFragments(cmd)[k])), d)

\* Tier 1 and Tier 3 accept the fragment, and no sub-fragment has a
\* deny-listed base token or begins with a multi-word deny prefix.
DenyWordsOnlyAsArguments(cmd) ==
    /\ Strip(cmd) # ""
    /\ _check_dangerous_patterns(Strip(cmd))
    /\ \A k \in 1..Len(SubFragments(cmd)) : SubcmdAccepted(SubFragments(cmd), k)
    /\ ~DenyBaseIn(cmd)
    /\ ~DenyPrefixIn(cmd)

\* C26: Tier 2 looks at base tokens and multi-word prefixes only: a fragment
\* that Tier 1 and Tier 3 accept and whose deny-listed words, if any, are
\* arguments is safe.
C26_DenyWordAsArgumentAccepted ==
    \A i \in DOMAIN results :
        DenyWordsOnlyAsArguments(results[i].command) => results[i].safe

\* The first position after position i of s that holds no blank: Len(s) + 1
\* when only blanks follow.
RECURSIVE SkipBlanks(_, _)
SkipBlanks(s, i) ==
    IF i > Len(s) \/ Ch(s, i) # " " THEN i ELSE SkipBlanks(s, i + 1)

\* The ">" at position i of s is followed, after an optional "|" (clobber)
\* or "&" (both streams) and blanks, by a word the shell opens as a file:
\* the number or "-" after ">&" is a descriptor, not a file.
RedirectsToFile(s, i) ==
    LET amp  == i < Len(s) /\ Ch(s, i + 1) = "&"
        bar  == i < Len(s) /\ Ch(s, i + 1) = "|"
        j    == SkipBlanks(s, IF amp \/ bar THEN i + 2 ELSE i + 1)
    IN  /\ Ch(s, i) = ">"
        /\ j <= Len(s)
        /\ Ch(s, j) \notin {"|", "&", ">", "<", ";", "(", ")"}
        /\ amp => Ch(s, j) \notin (DigitSet \cup {"-"})

\* C28, as stated: no accepted fragment holds a ">" of any form, the
\* clobber form ">|" included, with a word after it that the shell opens as
\* a file.  Violated: "ls >| ls" is accepted, the gate reads the "|" of
\* ">|" as a pipe between "ls >" and "ls".
C28_NoRedirectionAccepted ==
    \A i \in DOMAIN results :
        results[i].safe =>
            \A k \in 1..Len(results[i].command) :
                ~RedirectsToFile(results[i].command, k)

\* The words of a deny-list entry that names a command with a sub-action:
\* "service stop" gives <<"service", "stop">>, "ifconfig.*down" gives
\* <<"ifconfig", "down">>.
EntryWords(d) ==
    LET k == IndexFrom(d, 1, ".*") IN
    IF k = 0 THEN Words(d)
    ELSE Words(SubSeq(d, 1, k - 1) \o " " \o From(d, k + 2))

\* The sub-fragment sub invokes the command of the entry d with the
\* sub-action of d: its first word, a leading sudo apart, is the command and
\* the words of the sub-action stand together among the words after it.
InvokesSubAction(sub, d) ==
    LET w == Words(Lower(WithoutSudo(sub)))
        e == EntryWords(d)
        n == Len(e) - 1
    IN  /\ Len(e) >= 2
        /\ Len(w) >= Len(e)
        /\ w[1] = e[1]
        /\ \E b \in 2..(Len(w) - n + 1) :
              \A j \in 1..n : w[b + j - 1] = e[j + 1]

\* C29, as stated: a fragment that invokes a deny-listed command with its
\* deny-listed sub-action is unsafe, whatever stands between the two.
\* Violated: "service eth0 stop" and "ifconfig eth0 down" are accepted, the
\* entries are searched as the literal texts "service stop" and
\* "ifconfig.*down".
C29_SubActionRejected ==
    \A i \in DOMAIN results :
        (\E k \in 1..Len(SubFragments(results[i].command)), d \in DANGEROUS_COMMANDS :
            InvokesSubAction(SubFragments(results[i].command)[k], d))
        => ~results[i].safe

(***************************************************************************)
(* Properties of the planner                                               *)
(***************************************************************************)

\* The global cap of a complexity.
CapOf(c) ==
    CASE c = TRIVIAL -> 0
      [] c = SIMPLE -> 5
      [] c = MODERATE -> 10
      [] c = COMPLEX -> 20

\* C8: the planner's output has no string twice and is no longer than the
\* global cap of the complexity: 0 for TRIVIAL, 5 for SIMPLE, 10 for
\* MODERATE, 20 for COMPLEX.
C8_PlanUniqueAndCapped ==
    complexity # 0 =>
        /\ \A i, j \in DOMAIN planned : planned[i] = planned[j] => i = j
        /\ Len(planned) <= CapOf(complexity)

\* A COMPLEX plan that the cap cut to 20 commands, from domains whose
\* generators repeat one another.
C8_Witness ==
    /\ complexity = COMPLEX
    /\ Len(planned) = 20
    /\ Len(CollectedCommands(domains, entities, complexity)) > 20
    /\ \E i, j \in DOMAIN CollectedCommands(domains, entities, complexity) :
          i # j /\ CollectedCommands(domains, entities, complexity)[i]
                     = CollectedCommands(domains, entities, complexity)[j]

\* C2: every command the planner returns for supported domains and a
\* complexity of SIMPLE or above is accepted by the gate.
C2_PlannedAccepted ==
    (/\ complexity >= SIMPLE
     /\ \A i \in DOMAIN domains : domains[i] \in SUPPORTED_DOMAINS)
        => \A i \in DOMAIN planned : is_safe_scout_cmd(planned[i])

\* The number of single quotes in s before position i.
QuotesBefore(s, i) == Cardinality({j \in 1..(i - 1) : Ch(s, j) = "'"})

\* C23: no entity value reaches a probe unquoted: wherever a value that
\* shlex.quote would change stands in a planned command, it stands inside
\* single quotes.
C23_EntityValuesQuoted ==
    \A i \in DOMAIN planned, k \in DOMAIN entities :
        (entities[k] # "" /\ q(entities[k]) # entities[k]) =>
            \A j \in 1..Len(planned[i]) :
                At(planned[i], j, entities[k]) => QuotesBefore(planned[i], j) % 2 = 1

\* The entity value v passes the validation rule of its key k: safe_port for
\* a port, safe_name for a service or package, safe_path for a path.
PassesRule(k, v) ==
    CASE k = "port" -> safe_port(v) # ""
      [] k \in {"service", "package"} -> safe_name(v) # ""
      [] k = "path" -> safe_path(v) # ""
      [] OTHER -> TRUE

\* The entities without the keys whose values fail their rule.
WithoutInvalid(e) == [k \in {x \in DOMAIN e : PassesRule(x, e[x])} |-> e[k]]

\* C24: an entity value that fails its validation rule is treated as absent:
\* the plan is the plan for the entities without that key.
C24_InvalidIsAbsent ==
    complexity # 0 =>
        planned = get_scout_commands(domains, WithoutInvalid(entities), complexity)

(***************************************************************************)
(* Properties of the graph                                                 *)
(***************************************************************************)

\* The command the loop of scout_node is at.
CurrentProbe == scout_cmds[Len(exec_results) + 1]

\* The loop of scout_node has a command to handle.
InLoop == pc = "scout_loop" /\ Len(exec_results) < Len(scout_cmds)

\* C1: a subprocess is spawned for a probe only if is_safe_scout_cmd accepts
\* that exact string; for a probe the gate rejects the executor records
\* rc = 126 and spawns nothing.
C1_SpawnedOnlyIfAccepted ==
    [][IF ~InLoop
       THEN spawned' = spawned
       ELSE IF is_safe_scout_cmd(CurrentProbe)
       THEN spawned' \in {spawned, Append(spawned, CurrentProbe)}
       ELSE /\ spawned' = spawned
            /\ Len(exec_results') = Len(exec_results) + 1
            /\ exec_results'[Len(exec_results')].cmd = CurrentProbe
            /\ exec_results'[Len(exec_results')].rc = 126]_vars

\* The executor refused one probe of a list and spawned another.
C1_Witness ==
    /\ pc = "scout_loop"
    /\ \E i \in DOMAIN exec_results :
          /\ exec_results[i].rc = 126
          /\ StartsWith(exec_results[i].stderr, "BLOCKED: ")
          /\ \A j \in DOMAIN spawned : spawned[j] # exec_results[i].cmd
    /\ \E i \in DOMAIN exec_results, j \in DOMAIN spawned :
          exec_results[i].rc = 0 /\ spawned[j] = exec_results[i].cmd

\* refine_node has returned its update.
AfterRefine == pc \in {"retrieve", "scout", "scout_loop", "generate", "generate_llm", "end"}

\* The complexity the LLM declared in the intent; 2 when it declared none
LlmDeclared ==
    IF "complexity" \in DOMAIN state["intent"] THEN state["intent"]["complexity"] ELSE 2

\* assess_complexity on the query and the intent of the state
Heuristic ==
    assess_complexity(state["query"], state["intent"]["domains"],
                      state["intent"]["entities"])

\* refine_node answered from TRIVIAL_COMMANDS and asked no LLM.
FastPath == state["logs"][1] = "REFINE_NODE"

\* C9: after refine the state's complexity is the larger of the complexity
\* the LLM declared and the one assess_complexity gives, so it is never lower
\* than the heuristic one.
C9_ComplexityIsMax ==
    AfterRefine =>
        /\ state["complexity"] >= Heuristic
        /\ ~FastPath =>
              /\ state["complexity"] >= LlmDeclared
              /\ state["complexity"] \in {LlmDeclared, Heuristic}

\* The LLM declared less than the heuristic gives, and refine took the
\* heuristic's value.
C9_Witness ==
    /\ pc = "retrieve"
    /\ "complexity" \in DOMAIN state["intent"]
    /\ state["intent"]["complexity"] < Heuristic
    /\ state["complexity"] = Heuristic

\* C10: in every state reached after refine, complexity is an integer of
\* 1..4, whatever the LLM declared.
C10_ComplexityInRange ==
    AfterRefine => state["complexity"] \in TRIVIAL..COMPLEX

\* The `domains` of the object the LLM's text is read as (of the defaults
\* when the text cannot be read); null when it has none.
DeclaredDomains(text) ==
    LET p == parse_json_safe(text, default_intent)
        d == IF p.error # "" THEN default_intent.dict ELSE p.value.dict
    IN IF "domains" \in DOMAIN d THEN d["domains"] ELSE [t |-> "null", v |-> 0]

RECURSIVE KnownTags(_)
\* The tags of a list that are supported domains, in the order of the list.
KnownTags(tags) ==
    IF tags = <<>> THEN <<>>
    ELSE IF Head(tags) \in SUPPORTED_DOMAINS
    THEN <<Head(tags)>> \o KnownTags(Tail(tags))
    ELSE KnownTags(Tail(tags))

\* What the claim expects of intent.domains for a text of the LLM.
ExpectedDomains(text) ==
    LET given == DeclaredDomains(text)
        listed == CASE given.t = "list" -> given.v
                    [] given.t = "str" -> <<given.v>>
                    [] OTHER -> <<>>
    IN IF KnownTags(listed) = <<>> THEN <<"file">> ELSE KnownTags(listed)

C12_CommandSingleLine ==
    (pc = "end" /\ "command" \in DOMAIN state) => ~Contains(state["command"], "\n")

\* The logs of the state; none before the first node returned.
Logs == IF "logs" \in DOMAIN state THEN state["logs"] ELSE <<>>

\* a is the start of b.
IsPrefix(a, b) == Len(a) <= Len(b) /\ SubSeq(b, 1, Len(a)) = a

\* C13: across every step of a run the logs before it are a prefix of the
\* logs after it: entries are appended, never removed, reordered or rewritten.
C13_LogsOnlyAppended == [][IsPrefix(Logs, Logs')]_vars

\* A run through scout ended with the entries of its four nodes.
C13_Witness ==
    /\ pc = "end"
    /\ Len(Logs) = 4
    /\ Logs[1] = "REFINE_NODE (Intent Parsing)"
    /\ Logs[2] = "RETRIEVE_NODE (RAG)"
    /\ Logs[3] = "SCOUT_RESULTS"
    /\ Logs[4] = "GENERATE_NODE (Final Thinking)"

\* The node that pc is in.
NodeOf(p) ==
    CASE p \in {"refine", "refine_llm"} -> "refine"
      [] p \in {"scout", "scout_loop"} -> "scout"
      [] p \in {"generate", "generate_llm"} -> "generate"
      [] OTHER -> p

\* The edges of refine -> retrieve -> (trivial? generate : scout -> generate)
\* -> end, taken from a state.
EdgeOfGraph(from, to) ==
    \/ from = "refine" /\ to = "retrieve"
    \/ from = "retrieve" /\ to = "scout" /\ state["complexity"] # TRIVIAL
    \/ from = "retrieve" /\ to = "generate" /\ state["complexity"] = TRIVIAL
    \/ from = "scout" /\ to = "generate"
    \/ from = "generate" /\ to = "end"

\* A step that leaves a node leaves it along an edge of the graph.
StepInOrder ==
    NodeOf(pc') # NodeOf(pc) =>
        (pc' = "raised" \/ EdgeOfGraph(NodeOf(pc), NodeOf(pc')))

\* C14: the nodes run in the order refine, retrieve, scout (if and only if
\* the complexity is not TRIVIAL), generate, end, each at most once, and
\* retrieve and generate run in every run: no run stops before end.
C14_EveryRunInOrder == [][StepInOrder /\ pc' # "raised"]_vars

\* The stripped, lower-cased query is a key of TRIVIAL_COMMANDS.
QueryInTable == Lower(Strip(state["query"])) \in DOMAIN TRIVIAL_COMMANDS

\* C15: when the stripped, lower-cased query is a key of TRIVIAL_COMMANDS the
\* run asks the LLM nothing (no attempt, no backoff, no LLM position), never
\* enters scout and spawns no probe, raises nothing, retrieve has run before
\* generate, and at the end the command is the table's entry for that key.
C15_FastPathNoLlmNoProbe ==
    QueryInTable =>
        /\ pc \in {"refine", "retrieve", "generate", "end"}
        /\ attempt = 0 /\ backoff = <<>>
        /\ spawned = <<>> /\ scout_cmds = <<>> /\ exec_results = <<>>
        /\ pc \in {"retrieve", "generate", "end"} =>
              /\ state["complexity"] = TRIVIAL
              /\ state["command"] = TRIVIAL_COMMANDS[Lower(Strip(state["query"]))]
        /\ pc \in {"generate", "end"} =>
              /\ "examples" \in DOMAIN state
              /\ Logs = <<"REFINE_NODE", "RETRIEVE_NODE (RAG)">>

C15_Witness ==
    /\ pc = "end"
    /\ state["query"] = " PWD "
    /\ state["command"] = "pwd"
    /\ Logs = <<"REFINE_NODE", "RETRIEVE_NODE (RAG)">>
    /\ spawned = <<>>

\* The stripped, lower-cased query matches one of TRIVIAL_PATTERNS.
MatchesTrivial ==
    \E i \in 1..Len(TRIVIAL_PATTERNS) :
        Strip(Lower(state["query"])) \in TRIVIAL_PATTERNS[i]

\* C16: a query that matches one of the trivial patterns is short-circuited
\* to a canned command: the LLM is never asked, no probe is planned or
\* spawned, and after refine the complexity is TRIVIAL and the state holds
\* the command.
C16_PatternShortCircuits ==
    MatchesTrivial =>
        /\ pc \notin {"refine_llm", "generate_llm", "scout", "scout_loop"}
        /\ spawned = <<>> /\ scout_cmds = <<>>
        /\ AfterRefine => /\ state["complexity"] = TRIVIAL
                          /\ StateGet("command", "") # ""

\* The result the loop of scout_node has just appended.
LastResult == exec_results'[Len(exec_results')]

\* C17: one turn of the scout loop that is not interrupted appends exactly
\* one result, for the current probe, and stays in the loop: rc 126 with
\* stderr "BLOCKED: <reason>" and no subprocess exactly when the gate
\* refuses the probe, rc 124 exactly when stderr is "TIMEOUT", rc 1 for
\* another exception of subprocess.run, each of the last two counted as a
\* failure. The node is left for generate only when every probe has its
\* result, in the order of the probes.
C17_FailuresRecorded ==
    [][/\ (InLoop /\ pc' # "raised") =>
             /\ pc' = "scout_loop" /\ raised' = ""
             /\ scout_cmds' = scout_cmds
             /\ exec_results' = Append(exec_results, LastResult)
             /\ LastResult.cmd = CurrentProbe
             /\ IF is_safe_scout_cmd(CurrentProbe)
                THEN /\ spawned' = Append(spawned, CurrentProbe)
                     /\ LastResult.rc # 126
                     /\ LastResult.stderr = "TIMEOUT" <=> LastResult.rc = 124
                     /\ LastResult.stderr = "OSError" <=> LastResult.rc = 1
                     /\ LastResult.rc \in {124, 1} => LastResult.stdout = ""
                     /\ failed_count' =
                            IF LastResult.rc = 0 THEN failed_count ELSE failed_count + 1
                ELSE /\ spawned' = spawned
                     /\ LastResult.rc = 126
                     /\ LastResult.stdout = ""
                     /\ StartsWith(LastResult.stderr, "BLOCKED: ")
                     /\ LastResult.stderr # "BLOCKED: None"
                     /\ failed_count' = failed_count
       /\ (InLoop /\ pc' = "raised") => raised' = "KeyboardInterrupt"
       /\ (pc = "scout_loop" /\ pc' = "generate") =>
             /\ Len(exec_results) = Len(scout_cmds)
             /\ \A i \in DOMAIN scout_cmds : exec_results[i].cmd = scout_cmds[i]]_vars

\* The loop recorded a refused probe and a probe that timed out, and went
\* on to run a later probe.
C17_Witness ==
    /\ pc = "scout_loop"
    /\ \E i, j, k \in DOMAIN exec_results :
          /\ exec_results[i].rc = 126
          /\ exec_results[j].rc = 124 /\ exec_results[j].stderr = "TIMEOUT"
          /\ i < k /\ j < k
          /\ exec_results[k].rc = 0
          /\ \A n \in 1..k : exec_results[n].cmd = scout_cmds[n]

\* C18: an interrupt that arrives while a probe runs does not abort the
\* scout node: the interrupted probe gets a result with rc 130 and the
\* node returns its results as if the loop had completed.
C18_InterruptRecorded ==
    [][(InLoop /\ faults' = faults + 1 /\ exec_results' = exec_results) =>
          /\ pc' # "raised"
          /\ \E i \in DOMAIN exec_results' : exec_results'[i].rc = 130]_vars

\* C19: refine raises nothing, whatever the LLM answered to the intent
\* prompt: a step of refine that handles the answer goes on to retrieve with
\* an intent, the defaults with _parse_error when the answer gave no object.
C19_RefineNeverRaises ==
    [][pc = "refine_llm" =>
          \/ pc' = "refine_llm"
          \/ /\ pc' = "retrieve"
             /\ raised' = ""
             /\ "intent" \in DOMAIN state']_vars

\* A call of _invoke_llm_with_retry is under way.
InLlmCall == pc \in {"refine_llm", "generate_llm"}

\* The step on which a call of _invoke_llm_with_retry raises its last error
\* to the node, which notes it in the state.
GivesUp ==
    \/ /\ pc = "refine_llm" /\ pc' # "refine_llm"
       /\ "intent" \in DOMAIN state' /\ "_llm_error" \in DOMAIN state'["intent"]
    \/ /\ pc = "generate_llm" /\ pc' # "generate_llm"
       /\ "error" \in DOMAIN state'

\* C20, as the spec has it: a call that fails for good has slept after each
\* of its three failed attempts, 0.5, 1.0 and 1.5 seconds.
C20_BackoffAfterEveryFailure ==
    [][GivesUp => backoff = <<500, 1000, 1500>>]_vars

\* The position of a node in the graph.
NodeRank(p) ==
    CASE NodeOf(p) = "refine" -> 0
      [] NodeOf(p) = "retrieve" -> 1
      [] NodeOf(p) = "scout" -> 2
      [] NodeOf(p) = "generate" -> 3
      [] OTHER -> 4

\* The sleeps of a call that has failed n times and tries again.
Sleeps(n) == [k \in 1..n |-> 500 * k]

\* C20: one call of _invoke_llm_with_retry makes at most max_retries = 3
\* attempts; it has slept 0.5 s after the first failed attempt and 1.0 s
\* after the second, and after the third it sleeps no more and raises that
\* error to the node at once; a step of a call is either a failed attempt
\* followed by one more attempt or the end of the call; a call that returns
\* makes no further attempt; and no node is entered again once it is left.
C20_RetryBounded ==
    [][/\ attempt \in 0..(max_retries - 1) /\ attempt' \in 0..(max_retries - 1)
       /\ backoff = Sleeps(attempt) /\ backoff' = Sleeps(attempt')
       /\ InLlmCall =>
             \/ /\ pc' = pc /\ state' = state
                /\ attempt < max_retries - 1
                /\ attempt' = attempt + 1
             \/ /\ NodeRank(pc') > NodeRank(pc)
                /\ attempt' = 0
       /\ GivesUp => /\ attempt = max_retries - 1
                     /\ backoff = <<500, 1000>>
                     /\ pc' \in {"retrieve", "end"}
       /\ (InLlmCall /\ pc' # pc /\ ~GivesUp /\ pc' # "raised") =>
             /\ pc' \in {"retrieve", "end"}
             /\ "error" \notin DOMAIN state'
       /\ NodeRank(pc') >= NodeRank(pc)
       /\ NodeOf(pc') # NodeOf(pc) => NodeRank(pc') > NodeRank(pc)]_vars

\* The call made by generate_node has failed twice and slept 0.5 s and 1.0 s;
\* its third attempt is under way.
C20_Witness ==
    /\ pc = "generate_llm"
    /\ attempt = max_retries - 1
    /\ backoff = <<500, 1000>>

(***************************************************************************)
(* Properties of refine_node on queries that name tools                    *)
(***************************************************************************)

\* What lines 350-358 of refine_node make of the LLM's answer.
ParsedAnswer(result_str) ==
    LET p == parse_json_safe(result_str, default_intent)
    IN IF p.error # "" THEN WithNote(default_intent, "_parse_error", p.error)
       ELSE p.value

\* The updates refine_node can return for an answer of the LLM to the intent
\* prompt, over the orders in which the set KNOWN_TOOLS can be walked.
RefineUpdates(result_str) ==
    {ValidatedIntent(ParsedAnswer(result_str), state["query"], regex) :
         regex \in extract_entities_from_query(state["query"])}

\* C21: two runs on the same query with the same answers of the LLM and the
\* same probe outputs give the same command and facts: in particular the
\* intent that refine_node returns, whose entities go into the generation
\* prompt, is determined by the query and the LLM's answer.
C21_SameInputsSameIntent ==
    pc = "refine_llm" =>
        \A i \in 1..Len(IntentOutputs) :
            Cardinality(RefineUpdates(IntentOutputs[i])) = 1

(***************************************************************************)
(* Properties of the JSON repair                                           *)
(***************************************************************************)

\* C22: fix_json_string is idempotent: repairing a repaired text changes
\* nothing.
C22_RepairIdempotent ==
    pc = "fixed" => fix_json_string(state["fixed"]) = state["fixed"]

(***************************************************************************)
(* Properties of the graph: the warning and the logs of scout              *)
(***************************************************************************)

\* The marker scout_node puts before the facts.
WarningMarker == "[WARNING] Most scout commands failed."

\* The number of results whose rc is not 0.
NonZeroResults == Cardinality({i \in DOMAIN exec_results : exec_results[i].rc # 0})

\* C27: when the loop of scout_node is over, the facts begin with the
\* warning marker if and only if more than 70% of the probes have a result
\* with rc # 0, the refused ones (rc 126) included.
C27_WarningIffMostFailed ==
    [][(pc = "scout_loop" /\ pc' = "generate") =>
          (StartsWith(state'["scout_info"], WarningMarker)
              <=> 10 * NonZeroResults > 7 * Len(scout_cmds))]_vars

\* C30, as stated: an entry a node creates is in the logs once the node's
\* update is merged: when scout has run a non-empty list of probes the logs
\* end with SCOUT_PLANNING followed by SCOUT_RESULTS.  Violated: each call
\* of _log starts from the logs of the state, so the list with
\* SCOUT_RESULTS replaces the list with SCOUT_PLANNING.
C30_ScoutLogsBoth ==
    [][(pc = "scout_loop" /\ pc' = "generate" /\ scout_cmds # <<>>) =>
          LET logs == state'["logs"] IN
          /\ Len(logs) >= 2
          /\ logs[Len(logs) - 1] = "SCOUT_PLANNING"
          /\ logs[Len(logs)] = "SCOUT_RESULTS"]_vars

====
